---------------------------- MODULE Spec2Model ----------------------------
(***************************************************************************)
(* Ingestion and identity-resolution pipeline of the SAM.gov Africa        *)
(* dashboard: region classification, identity resolution, date             *)
(* normalisation and the three write paths into the opportunities table    *)
(* (DatabaseManager.insert_or_update_batch of sam_utils.py, and            *)
(* insert_new_rows_chunk of bootstrap_historical.py and of                 *)
(* download_and_update.py).                                                *)
(*                                                                         *)
(* A Python str is modelled as the sequence of its characters, one         *)
(* one-letter string per character, so that upper(), lower(), strip(),     *)
(* "in" and the regular expressions of the source are computed and not     *)
(* assumed.  The accented letters of the country tables are the tokens     *)
(* "e'" (e acute), "o^" (o circumflex), "a~" (a tilde), "i'" (i acute),    *)
(* "c," (c cedilla) and their capitals.                                    *)
(***************************************************************************)
EXTENDS Integers, Sequences, FiniteSets, TLC

(***************************************************************************)
(* Bounds of the model.                                                    *)
(***************************************************************************)
\* number of ingestion operations (file ingestions, upsert batches) in a run
MaxOps == 2
\* rows per chunk; stands for CHUNK_SIZE = 50_000 of the scripts
ChunkRows == 2

(***************************************************************************)
(* Python values and text primitives.                                      *)
(***************************************************************************)
UpperCase ==
  <<
    "A", "B", "C", "D", "E", "F", "G", "H", "I", "J", "K", "L", "M", "N", "O", "P", "Q", "R",
    "S", "T", "U", "V", "W", "X", "Y", "Z", "A~", "E'", "I'", "O^", "C,"
  >>

LowerCase ==
  <<
    "a", "b", "c", "d", "e", "f", "g", "h", "i", "j", "k", "l", "m", "n", "o", "p", "q", "r",
    "s", "t", "u", "v", "w", "x", "y", "z", "a~", "e'", "i'", "o^", "c,"
  >>

\* the characters of the model in ascending code point order (str comparison)
CodePointOrder ==
  <<
    " ", "#", "$", "&", "'", "(", ")", ",", "-", ".", "/", "0", "1", "2", "3", "4", "5", "6",
    "7", "8", "9", ":", "A", "B", "C", "D", "E", "F", "G", "H", "I", "J", "K", "L", "M", "N",
    "O", "P", "Q", "R", "S", "T", "U", "V", "W", "X", "Y", "Z", "[", "]", "_", "a", "b", "c",
    "d", "e", "f", "g", "h", "i", "j", "k", "l", "m", "n", "o", "p", "q", "r", "s", "t", "u",
    "v", "w", "x", "y", "z", "|", "A~", "C,", "E'", "I'", "O^", "a~", "c,", "e'", "i'", "o^"
  >>

DigitChars == <<"0", "1", "2", "3", "4", "5", "6", "7", "8", "9">>

AsciiUpper == {UpperCase[i] : i \in 1..26}

Letters == {UpperCase[i] : i \in DOMAIN UpperCase} \cup {LowerCase[i] : i \in DOMAIN LowerCase}

IsDigit(c) == \E i \in DOMAIN DigitChars : DigitChars[i] = c

DigitVal(c) == (CHOOSE i \in DOMAIN DigitChars : DigitChars[i] = c) - 1

\* a missing cell as pandas reads it (float nan), and Python's None / SQL NULL
PyNaN == <<"<nan>">>
PyNone == <<"<None>">>

\* pd.isna(v), pd.notna(v)
isna(v) == v = PyNaN \/ v = PyNone

\* truth value of a cell: "" and None are falsy, nan is truthy
Truthy(v) == v # <<>> /\ v # PyNone

\* v or ""
OrEmpty(v) == IF Truthy(v) THEN v ELSE <<>>

\* str(v)
str(v) ==
  IF v = PyNaN THEN <<"n", "a", "n">>
  ELSE IF v = PyNone THEN <<"N", "o", "n", "e">>
  ELSE v

upper_char(c) ==
  IF \E i \in DOMAIN LowerCase : LowerCase[i] = c
  THEN UpperCase[CHOOSE i \in DOMAIN LowerCase : LowerCase[i] = c]
  ELSE c

lower_char(c) ==
  IF \E i \in DOMAIN UpperCase : UpperCase[i] = c
  THEN LowerCase[CHOOSE i \in DOMAIN UpperCase : UpperCase[i] = c]
  ELSE c

\* s.upper(), s.lower()
upper(s) == [i \in 1..Len(s) |-> upper_char(s[i])]

lower(s) == [i \in 1..Len(s) |-> lower_char(s[i])]

RECURSIVE lstrip(_)
lstrip(s) == IF s # <<>> /\ s[1] = " " THEN lstrip(Tail(s)) ELSE s

RECURSIVE rstrip(_)
rstrip(s) == IF s # <<>> /\ s[Len(s)] = " " THEN rstrip(SubSeq(s, 1, Len(s) - 1)) ELSE s

\* s.strip()
strip(s) == rstrip(lstrip(s))

\* sub in s
Contains(sub, s) ==
  \E i \in 1..(Len(s) - Len(sub) + 1) : SubSeq(s, i, i + Len(sub) - 1) = sub

\* s.isalpha()
isalpha(s) == s # <<>> /\ \A i \in 1..Len(s) : s[i] \in Letters

Ord(c) == CHOOSE i \in DOMAIN CodePointOrder : CodePointOrder[i] = c

\* a < b on str: lexicographic by code point
RECURSIVE StrLess(_, _)
StrLess(a, b) ==
  IF b = <<>> THEN FALSE
  ELSE IF a = <<>> THEN TRUE
  ELSE IF a[1] = b[1] THEN StrLess(Tail(a), Tail(b))
  ELSE Ord(a[1]) < Ord(b[1])

\* re.search(r'\(([A-Z]{3})\)', s): the group of the leftmost match, or None
IsoInParens(s) ==
  LET hits == {i \in 1..(Len(s) - 4) :
                 /\ s[i] = "("
                 /\ \A k \in 1..3 : s[i + k] \in AsciiUpper
                 /\ s[i + 4] = ")"}
  IN IF hits = {} THEN PyNone
     ELSE LET i == CHOOSE j \in hits : \A k \in hits : j <= k
          IN SubSeq(s, i + 1, i + 3)

(* bootstrap_historical.py AFRICA_ISO3 (the same 54 codes as the values of AFRICAN_COUNTRIES) *)
AFRICA_ISO3 ==
  {
    <<"D","Z","A">>, <<"A","G","O">>, <<"B","E","N">>, <<"B","W","A">>, <<"B","F","A">>,
    <<"B","D","I">>, <<"C","P","V">>, <<"C","M","R">>, <<"C","A","F">>, <<"T","C","D">>,
    <<"C","O","M">>, <<"C","O","G">>, <<"C","O","D">>, <<"D","J","I">>, <<"E","G","Y">>,
    <<"G","N","Q">>, <<"E","R","I">>, <<"S","W","Z">>, <<"E","T","H">>, <<"G","A","B">>,
    <<"G","M","B">>, <<"G","H","A">>, <<"G","I","N">>, <<"G","N","B">>, <<"C","I","V">>,
    <<"K","E","N">>, <<"L","S","O">>, <<"L","B","R">>, <<"L","B","Y">>, <<"M","D","G">>,
    <<"M","W","I">>, <<"M","L","I">>, <<"M","R","T">>, <<"M","U","S">>, <<"M","A","R">>,
    <<"M","O","Z">>, <<"N","A","M">>, <<"N","E","R">>, <<"N","G","A">>, <<"R","W","A">>,
    <<"S","T","P">>, <<"S","E","N">>, <<"S","Y","C">>, <<"S","L","E">>, <<"S","O","M">>,
    <<"Z","A","F">>, <<"S","S","D">>, <<"S","D","N">>, <<"T","Z","A">>, <<"T","G","O">>,
    <<"T","U","N">>, <<"U","G","A">>, <<"Z","M","B">>, <<"Z","W","E">>
  }

(* bootstrap_historical.py AFRICA_MAPPINGS, in insertion order: <<key, code>> *)
AFRICA_MAPPINGS ==
  <<
    <<<<"a","l","g","e","r","i","a">>, <<"D","Z","A">>>>, <<<<"d","z","a">>, <<"D","Z","A">>>>,
    <<<<"a","l","g","e'","r","i","e">>, <<"D","Z","A">>>>,
    <<<<"p","e","o","p","l","e","'","s"," ","d","e","m","o","c","r","a","t","i","c"," ","r","e","p","u","b","l","i","c"," ","o","f"," ","a","l","g","e","r","i","a">>, <<"D","Z","A">>>>,
    <<<<"a","n","g","o","l","a">>, <<"A","G","O">>>>, <<<<"a","g","o">>, <<"A","G","O">>>>,
    <<<<"r","e","p","u","b","l","i","c"," ","o","f"," ","a","n","g","o","l","a">>, <<"A","G","O">>>>,
    <<<<"b","e","n","i","n">>, <<"B","E","N">>>>, <<<<"b","e","n">>, <<"B","E","N">>>>,
    <<<<"b","e'","n","i","n">>, <<"B","E","N">>>>,
    <<<<"r","e","p","u","b","l","i","c"," ","o","f"," ","b","e","n","i","n">>, <<"B","E","N">>>>,
    <<<<"b","o","t","s","w","a","n","a">>, <<"B","W","A">>>>,
    <<<<"b","w","a">>, <<"B","W","A">>>>,
    <<<<"r","e","p","u","b","l","i","c"," ","o","f"," ","b","o","t","s","w","a","n","a">>, <<"B","W","A">>>>,
    <<<<"b","u","r","k","i","n","a"," ","f","a","s","o">>, <<"B","F","A">>>>,
    <<<<"b","f","a">>, <<"B","F","A">>>>, <<<<"b","u","r","k","i","n","a">>, <<"B","F","A">>>>,
    <<<<"b","u","r","u","n","d","i">>, <<"B","D","I">>>>, <<<<"b","d","i">>, <<"B","D","I">>>>,
    <<<<"r","e","p","u","b","l","i","c"," ","o","f"," ","b","u","r","u","n","d","i">>, <<"B","D","I">>>>,
    <<<<"c","a","b","o"," ","v","e","r","d","e">>, <<"C","P","V">>>>,
    <<<<"c","p","v">>, <<"C","P","V">>>>,
    <<<<"c","a","p","e"," ","v","e","r","d","e">>, <<"C","P","V">>>>,
    <<<<"r","e","p","u","b","l","i","c"," ","o","f"," ","c","a","b","o"," ","v","e","r","d","e">>, <<"C","P","V">>>>,
    <<<<"c","a","m","e","r","o","o","n">>, <<"C","M","R">>>>,
    <<<<"c","m","r">>, <<"C","M","R">>>>,
    <<<<"c","a","m","e","r","o","u","n">>, <<"C","M","R">>>>,
    <<<<"r","e","p","u","b","l","i","c"," ","o","f"," ","c","a","m","e","r","o","o","n">>, <<"C","M","R">>>>,
    <<<<"c","e","n","t","r","a","l"," ","a","f","r","i","c","a","n"," ","r","e","p","u","b","l","i","c">>, <<"C","A","F">>>>,
    <<<<"c","a","f">>, <<"C","A","F">>>>, <<<<"c","a","r">>, <<"C","A","F">>>>,
    <<<<"c","e","n","t","r","a","f","r","i","q","u","e">>, <<"C","A","F">>>>,
    <<<<"c","h","a","d">>, <<"T","C","D">>>>, <<<<"t","c","d">>, <<"T","C","D">>>>,
    <<<<"t","c","h","a","d">>, <<"T","C","D">>>>,
    <<<<"r","e","p","u","b","l","i","c"," ","o","f"," ","c","h","a","d">>, <<"T","C","D">>>>,
    <<<<"c","o","m","o","r","o","s">>, <<"C","O","M">>>>, <<<<"c","o","m">>, <<"C","O","M">>>>,
    <<<<"c","o","m","o","r","e","s">>, <<"C","O","M">>>>,
    <<<<"u","n","i","o","n"," ","o","f"," ","t","h","e"," ","c","o","m","o","r","o","s">>, <<"C","O","M">>>>,
    <<<<"c","o","n","g","o">>, <<"C","O","G">>>>, <<<<"c","o","g">>, <<"C","O","G">>>>,
    <<<<"c","o","n","g","o","-","b","r","a","z","z","a","v","i","l","l","e">>, <<"C","O","G">>>>,
    <<<<"r","e","p","u","b","l","i","c"," ","o","f"," ","t","h","e"," ","c","o","n","g","o">>, <<"C","O","G">>>>,
    <<<<"c","o","n","g","o"," ","b","r","a","z","z","a","v","i","l","l","e">>, <<"C","O","G">>>>,
    <<<<"d","e","m","o","c","r","a","t","i","c"," ","r","e","p","u","b","l","i","c"," ","o","f"," ","t","h","e"," ","c","o","n","g","o">>, <<"C","O","D">>>>,
    <<<<"c","o","d">>, <<"C","O","D">>>>, <<<<"d","r","c">>, <<"C","O","D">>>>,
    <<<<"c","o","n","g","o","-","k","i","n","s","h","a","s","a">>, <<"C","O","D">>>>,
    <<<<"d","r"," ","c","o","n","g","o">>, <<"C","O","D">>>>,
    <<<<"c","o","n","g","o"," ","k","i","n","s","h","a","s","a">>, <<"C","O","D">>>>,
    <<<<"z","a","i","r","e">>, <<"C","O","D">>>>,
    <<<<"d","j","i","b","o","u","t","i">>, <<"D","J","I">>>>,
    <<<<"d","j","i">>, <<"D","J","I">>>>,
    <<<<"r","e","p","u","b","l","i","c"," ","o","f"," ","d","j","i","b","o","u","t","i">>, <<"D","J","I">>>>,
    <<<<"e","g","y","p","t">>, <<"E","G","Y">>>>, <<<<"e","g","y">>, <<"E","G","Y">>>>,
    <<<<"a","r","a","b"," ","r","e","p","u","b","l","i","c"," ","o","f"," ","e","g","y","p","t">>, <<"E","G","Y">>>>,
    <<<<"m","i","s","r">>, <<"E","G","Y">>>>,
    <<<<"e","q","u","a","t","o","r","i","a","l"," ","g","u","i","n","e","a">>, <<"G","N","Q">>>>,
    <<<<"g","n","q">>, <<"G","N","Q">>>>,
    <<<<"g","u","i","n","e","a"," ","e","c","u","a","t","o","r","i","a","l">>, <<"G","N","Q">>>>,
    <<<<"e","r","i","t","r","e","a">>, <<"E","R","I">>>>, <<<<"e","r","i">>, <<"E","R","I">>>>,
    <<<<"s","t","a","t","e"," ","o","f"," ","e","r","i","t","r","e","a">>, <<"E","R","I">>>>,
    <<<<"e","s","w","a","t","i","n","i">>, <<"S","W","Z">>>>,
    <<<<"s","w","z">>, <<"S","W","Z">>>>,
    <<<<"s","w","a","z","i","l","a","n","d">>, <<"S","W","Z">>>>,
    <<<<"k","i","n","g","d","o","m"," ","o","f"," ","e","s","w","a","t","i","n","i">>, <<"S","W","Z">>>>,
    <<<<"e","t","h","i","o","p","i","a">>, <<"E","T","H">>>>,
    <<<<"e","t","h">>, <<"E","T","H">>>>,
    <<<<"f","e","d","e","r","a","l"," ","d","e","m","o","c","r","a","t","i","c"," ","r","e","p","u","b","l","i","c"," ","o","f"," ","e","t","h","i","o","p","i","a">>, <<"E","T","H">>>>,
    <<<<"g","a","b","o","n">>, <<"G","A","B">>>>, <<<<"g","a","b">>, <<"G","A","B">>>>,
    <<<<"g","a","b","o","n","e","s","e"," ","r","e","p","u","b","l","i","c">>, <<"G","A","B">>>>,
    <<<<"g","a","m","b","i","a">>, <<"G","M","B">>>>, <<<<"g","m","b">>, <<"G","M","B">>>>,
    <<<<"t","h","e"," ","g","a","m","b","i","a">>, <<"G","M","B">>>>,
    <<<<"r","e","p","u","b","l","i","c"," ","o","f"," ","t","h","e"," ","g","a","m","b","i","a">>, <<"G","M","B">>>>,
    <<<<"g","h","a","n","a">>, <<"G","H","A">>>>, <<<<"g","h","a">>, <<"G","H","A">>>>,
    <<<<"r","e","p","u","b","l","i","c"," ","o","f"," ","g","h","a","n","a">>, <<"G","H","A">>>>,
    <<<<"g","u","i","n","e","a">>, <<"G","I","N">>>>, <<<<"g","i","n">>, <<"G","I","N">>>>,
    <<<<"g","u","i","n","e'","e">>, <<"G","I","N">>>>,
    <<<<"r","e","p","u","b","l","i","c"," ","o","f"," ","g","u","i","n","e","a">>, <<"G","I","N">>>>,
    <<<<"g","u","i","n","e","a","-","b","i","s","s","a","u">>, <<"G","N","B">>>>,
    <<<<"g","n","b">>, <<"G","N","B">>>>,
    <<<<"g","u","i","n","e","a"," ","b","i","s","s","a","u">>, <<"G","N","B">>>>,
    <<<<"g","u","i","n","e'","e","-","b","i","s","s","a","u">>, <<"G","N","B">>>>,
    <<<<"i","v","o","r","y"," ","c","o","a","s","t">>, <<"C","I","V">>>>,
    <<<<"c","i","v">>, <<"C","I","V">>>>,
    <<<<"c","o^","t","e"," ","d","'","i","v","o","i","r","e">>, <<"C","I","V">>>>,
    <<<<"c","o","t","e"," ","d","'","i","v","o","i","r","e">>, <<"C","I","V">>>>,
    <<<<"c","o","t","e"," ","d","i","v","o","i","r","e">>, <<"C","I","V">>>>,
    <<<<"k","e","n","y","a">>, <<"K","E","N">>>>, <<<<"k","e","n">>, <<"K","E","N">>>>,
    <<<<"r","e","p","u","b","l","i","c"," ","o","f"," ","k","e","n","y","a">>, <<"K","E","N">>>>,
    <<<<"l","e","s","o","t","h","o">>, <<"L","S","O">>>>, <<<<"l","s","o">>, <<"L","S","O">>>>,
    <<<<"k","i","n","g","d","o","m"," ","o","f"," ","l","e","s","o","t","h","o">>, <<"L","S","O">>>>,
    <<<<"l","i","b","e","r","i","a">>, <<"L","B","R">>>>, <<<<"l","b","r">>, <<"L","B","R">>>>,
    <<<<"r","e","p","u","b","l","i","c"," ","o","f"," ","l","i","b","e","r","i","a">>, <<"L","B","R">>>>,
    <<<<"l","i","b","y","a">>, <<"L","B","Y">>>>, <<<<"l","b","y">>, <<"L","B","Y">>>>,
    <<<<"s","t","a","t","e"," ","o","f"," ","l","i","b","y","a">>, <<"L","B","Y">>>>,
    <<<<"m","a","d","a","g","a","s","c","a","r">>, <<"M","D","G">>>>,
    <<<<"m","d","g">>, <<"M","D","G">>>>,
    <<<<"r","e","p","u","b","l","i","c"," ","o","f"," ","m","a","d","a","g","a","s","c","a","r">>, <<"M","D","G">>>>,
    <<<<"m","a","l","a","w","i">>, <<"M","W","I">>>>, <<<<"m","w","i">>, <<"M","W","I">>>>,
    <<<<"r","e","p","u","b","l","i","c"," ","o","f"," ","m","a","l","a","w","i">>, <<"M","W","I">>>>,
    <<<<"m","a","l","i">>, <<"M","L","I">>>>, <<<<"m","l","i">>, <<"M","L","I">>>>,
    <<<<"r","e","p","u","b","l","i","c"," ","o","f"," ","m","a","l","i">>, <<"M","L","I">>>>,
    <<<<"m","a","u","r","i","t","a","n","i","a">>, <<"M","R","T">>>>,
    <<<<"m","r","t">>, <<"M","R","T">>>>,
    <<<<"m","a","u","r","i","t","a","n","i","e">>, <<"M","R","T">>>>,
    <<<<"i","s","l","a","m","i","c"," ","r","e","p","u","b","l","i","c"," ","o","f"," ","m","a","u","r","i","t","a","n","i","a">>, <<"M","R","T">>>>,
    <<<<"m","a","u","r","i","t","i","u","s">>, <<"M","U","S">>>>,
    <<<<"m","u","s">>, <<"M","U","S">>>>,
    <<<<"r","e","p","u","b","l","i","c"," ","o","f"," ","m","a","u","r","i","t","i","u","s">>, <<"M","U","S">>>>,
    <<<<"m","o","r","o","c","c","o">>, <<"M","A","R">>>>, <<<<"m","a","r">>, <<"M","A","R">>>>,
    <<<<"m","a","r","o","c">>, <<"M","A","R">>>>,
    <<<<"k","i","n","g","d","o","m"," ","o","f"," ","m","o","r","o","c","c","o">>, <<"M","A","R">>>>,
    <<<<"m","o","z","a","m","b","i","q","u","e">>, <<"M","O","Z">>>>,
    <<<<"m","o","z">>, <<"M","O","Z">>>>,
    <<<<"m","o","c,","a","m","b","i","q","u","e">>, <<"M","O","Z">>>>,
    <<<<"r","e","p","u","b","l","i","c"," ","o","f"," ","m","o","z","a","m","b","i","q","u","e">>, <<"M","O","Z">>>>,
    <<<<"n","a","m","i","b","i","a">>, <<"N","A","M">>>>, <<<<"n","a","m">>, <<"N","A","M">>>>,
    <<<<"r","e","p","u","b","l","i","c"," ","o","f"," ","n","a","m","i","b","i","a">>, <<"N","A","M">>>>,
    <<<<"n","i","g","e","r">>, <<"N","E","R">>>>, <<<<"n","e","r">>, <<"N","E","R">>>>,
    <<<<"r","e","p","u","b","l","i","c"," ","o","f"," ","n","i","g","e","r">>, <<"N","E","R">>>>,
    <<<<"n","i","g","e","r","i","a">>, <<"N","G","A">>>>, <<<<"n","g","a">>, <<"N","G","A">>>>,
    <<<<"f","e","d","e","r","a","l"," ","r","e","p","u","b","l","i","c"," ","o","f"," ","n","i","g","e","r","i","a">>, <<"N","G","A">>>>,
    <<<<"r","w","a","n","d","a">>, <<"R","W","A">>>>, <<<<"r","w","a">>, <<"R","W","A">>>>,
    <<<<"r","e","p","u","b","l","i","c"," ","o","f"," ","r","w","a","n","d","a">>, <<"R","W","A">>>>,
    <<<<"s","a~","o"," ","t","o","m","e'"," ","a","n","d"," ","p","r","i'","n","c","i","p","e">>, <<"S","T","P">>>>,
    <<<<"s","t","p">>, <<"S","T","P">>>>,
    <<<<"s","a","o"," ","t","o","m","e"," ","a","n","d"," ","p","r","i","n","c","i","p","e">>, <<"S","T","P">>>>,
    <<<<"s","a~","o"," ","t","o","m","e'">>, <<"S","T","P">>>>,
    <<<<"s","e","n","e","g","a","l">>, <<"S","E","N">>>>, <<<<"s","e","n">>, <<"S","E","N">>>>,
    <<<<"s","e'","n","e'","g","a","l">>, <<"S","E","N">>>>,
    <<<<"r","e","p","u","b","l","i","c"," ","o","f"," ","s","e","n","e","g","a","l">>, <<"S","E","N">>>>,
    <<<<"s","e","y","c","h","e","l","l","e","s">>, <<"S","Y","C">>>>,
    <<<<"s","y","c">>, <<"S","Y","C">>>>,
    <<<<"r","e","p","u","b","l","i","c"," ","o","f"," ","s","e","y","c","h","e","l","l","e","s">>, <<"S","Y","C">>>>,
    <<<<"s","i","e","r","r","a"," ","l","e","o","n","e">>, <<"S","L","E">>>>,
    <<<<"s","l","e">>, <<"S","L","E">>>>,
    <<<<"r","e","p","u","b","l","i","c"," ","o","f"," ","s","i","e","r","r","a"," ","l","e","o","n","e">>, <<"S","L","E">>>>,
    <<<<"s","o","m","a","l","i","a">>, <<"S","O","M">>>>, <<<<"s","o","m">>, <<"S","O","M">>>>,
    <<<<"f","e","d","e","r","a","l"," ","r","e","p","u","b","l","i","c"," ","o","f"," ","s","o","m","a","l","i","a">>, <<"S","O","M">>>>,
    <<<<"s","o","u","t","h"," ","a","f","r","i","c","a">>, <<"Z","A","F">>>>,
    <<<<"z","a","f">>, <<"Z","A","F">>>>,
    <<<<"r","e","p","u","b","l","i","c"," ","o","f"," ","s","o","u","t","h"," ","a","f","r","i","c","a">>, <<"Z","A","F">>>>,
    <<<<"r","s","a">>, <<"Z","A","F">>>>,
    <<<<"s","o","u","t","h"," ","s","u","d","a","n">>, <<"S","S","D">>>>,
    <<<<"s","s","d">>, <<"S","S","D">>>>,
    <<<<"r","e","p","u","b","l","i","c"," ","o","f"," ","s","o","u","t","h"," ","s","u","d","a","n">>, <<"S","S","D">>>>,
    <<<<"s","u","d","a","n">>, <<"S","D","N">>>>, <<<<"s","d","n">>, <<"S","D","N">>>>,
    <<<<"r","e","p","u","b","l","i","c"," ","o","f"," ","t","h","e"," ","s","u","d","a","n">>, <<"S","D","N">>>>,
    <<<<"t","a","n","z","a","n","i","a">>, <<"T","Z","A">>>>,
    <<<<"t","z","a">>, <<"T","Z","A">>>>,
    <<<<"u","n","i","t","e","d"," ","r","e","p","u","b","l","i","c"," ","o","f"," ","t","a","n","z","a","n","i","a">>, <<"T","Z","A">>>>,
    <<<<"t","a","n","g","a","n","y","i","k","a">>, <<"T","Z","A">>>>,
    <<<<"t","o","g","o">>, <<"T","G","O">>>>, <<<<"t","g","o">>, <<"T","G","O">>>>,
    <<<<"t","o","g","o","l","e","s","e"," ","r","e","p","u","b","l","i","c">>, <<"T","G","O">>>>,
    <<<<"t","u","n","i","s","i","a">>, <<"T","U","N">>>>, <<<<"t","u","n">>, <<"T","U","N">>>>,
    <<<<"t","u","n","i","s","i","e">>, <<"T","U","N">>>>,
    <<<<"r","e","p","u","b","l","i","c"," ","o","f"," ","t","u","n","i","s","i","a">>, <<"T","U","N">>>>,
    <<<<"u","g","a","n","d","a">>, <<"U","G","A">>>>, <<<<"u","g","a">>, <<"U","G","A">>>>,
    <<<<"r","e","p","u","b","l","i","c"," ","o","f"," ","u","g","a","n","d","a">>, <<"U","G","A">>>>,
    <<<<"z","a","m","b","i","a">>, <<"Z","M","B">>>>, <<<<"z","m","b">>, <<"Z","M","B">>>>,
    <<<<"r","e","p","u","b","l","i","c"," ","o","f"," ","z","a","m","b","i","a">>, <<"Z","M","B">>>>,
    <<<<"z","i","m","b","a","b","w","e">>, <<"Z","W","E">>>>,
    <<<<"z","w","e">>, <<"Z","W","E">>>>,
    <<<<"r","e","p","u","b","l","i","c"," ","o","f"," ","z","i","m","b","a","b","w","e">>, <<"Z","W","E">>>>
  >>

(* download_and_update.py AFRICA_MAPPINGS, in insertion order *)
AFRICA_MAPPINGS_daily ==
  <<
    <<<<"a","l","g","e","r","i","a">>, <<"D","Z","A">>>>, <<<<"d","z","a">>, <<"D","Z","A">>>>,
    <<<<"a","l","g","e'","r","i","e">>, <<"D","Z","A">>>>,
    <<<<"a","n","g","o","l","a">>, <<"A","G","O">>>>, <<<<"a","g","o">>, <<"A","G","O">>>>,
    <<<<"b","e","n","i","n">>, <<"B","E","N">>>>, <<<<"b","e","n">>, <<"B","E","N">>>>,
    <<<<"b","e'","n","i","n">>, <<"B","E","N">>>>,
    <<<<"b","o","t","s","w","a","n","a">>, <<"B","W","A">>>>,
    <<<<"b","w","a">>, <<"B","W","A">>>>,
    <<<<"b","u","r","k","i","n","a"," ","f","a","s","o">>, <<"B","F","A">>>>,
    <<<<"b","f","a">>, <<"B","F","A">>>>, <<<<"b","u","r","k","i","n","a">>, <<"B","F","A">>>>,
    <<<<"b","u","r","u","n","d","i">>, <<"B","D","I">>>>, <<<<"b","d","i">>, <<"B","D","I">>>>,
    <<<<"c","a","b","o"," ","v","e","r","d","e">>, <<"C","P","V">>>>,
    <<<<"c","p","v">>, <<"C","P","V">>>>,
    <<<<"c","a","p","e"," ","v","e","r","d","e">>, <<"C","P","V">>>>,
    <<<<"c","a","m","e","r","o","o","n">>, <<"C","M","R">>>>,
    <<<<"c","m","r">>, <<"C","M","R">>>>,
    <<<<"c","a","m","e","r","o","u","n">>, <<"C","M","R">>>>,
    <<<<"c","e","n","t","r","a","l"," ","a","f","r","i","c","a","n"," ","r","e","p","u","b","l","i","c">>, <<"C","A","F">>>>,
    <<<<"c","a","f">>, <<"C","A","F">>>>, <<<<"c","a","r">>, <<"C","A","F">>>>,
    <<<<"c","h","a","d">>, <<"T","C","D">>>>, <<<<"t","c","d">>, <<"T","C","D">>>>,
    <<<<"t","c","h","a","d">>, <<"T","C","D">>>>,
    <<<<"c","o","m","o","r","o","s">>, <<"C","O","M">>>>, <<<<"c","o","m">>, <<"C","O","M">>>>,
    <<<<"c","o","m","o","r","e","s">>, <<"C","O","M">>>>,
    <<<<"c","o","n","g","o">>, <<"C","O","G">>>>, <<<<"c","o","g">>, <<"C","O","G">>>>,
    <<<<"c","o","n","g","o","-","b","r","a","z","z","a","v","i","l","l","e">>, <<"C","O","G">>>>,
    <<<<"r","e","p","u","b","l","i","c"," ","o","f"," ","c","o","n","g","o">>, <<"C","O","G">>>>,
    <<<<"d","e","m","o","c","r","a","t","i","c"," ","r","e","p","u","b","l","i","c"," ","o","f"," ","t","h","e"," ","c","o","n","g","o">>, <<"C","O","D">>>>,
    <<<<"c","o","d">>, <<"C","O","D">>>>, <<<<"d","r","c">>, <<"C","O","D">>>>,
    <<<<"d","r"," ","c","o","n","g","o">>, <<"C","O","D">>>>,
    <<<<"c","o","n","g","o","-","k","i","n","s","h","a","s","a">>, <<"C","O","D">>>>,
    <<<<"d","j","i","b","o","u","t","i">>, <<"D","J","I">>>>,
    <<<<"d","j","i">>, <<"D","J","I">>>>, <<<<"e","g","y","p","t">>, <<"E","G","Y">>>>,
    <<<<"e","g","y">>, <<"E","G","Y">>>>,
    <<<<"e","q","u","a","t","o","r","i","a","l"," ","g","u","i","n","e","a">>, <<"G","N","Q">>>>,
    <<<<"g","n","q">>, <<"G","N","Q">>>>, <<<<"e","r","i","t","r","e","a">>, <<"E","R","I">>>>,
    <<<<"e","r","i">>, <<"E","R","I">>>>,
    <<<<"e","s","w","a","t","i","n","i">>, <<"S","W","Z">>>>,
    <<<<"s","w","z">>, <<"S","W","Z">>>>,
    <<<<"s","w","a","z","i","l","a","n","d">>, <<"S","W","Z">>>>,
    <<<<"e","t","h","i","o","p","i","a">>, <<"E","T","H">>>>,
    <<<<"e","t","h">>, <<"E","T","H">>>>, <<<<"g","a","b","o","n">>, <<"G","A","B">>>>,
    <<<<"g","a","b">>, <<"G","A","B">>>>, <<<<"g","a","m","b","i","a">>, <<"G","M","B">>>>,
    <<<<"g","m","b">>, <<"G","M","B">>>>,
    <<<<"t","h","e"," ","g","a","m","b","i","a">>, <<"G","M","B">>>>,
    <<<<"g","h","a","n","a">>, <<"G","H","A">>>>, <<<<"g","h","a">>, <<"G","H","A">>>>,
    <<<<"g","u","i","n","e","a">>, <<"G","I","N">>>>, <<<<"g","i","n">>, <<"G","I","N">>>>,
    <<<<"g","u","i","n","e'","e">>, <<"G","I","N">>>>,
    <<<<"g","u","i","n","e","a","-","b","i","s","s","a","u">>, <<"G","N","B">>>>,
    <<<<"g","n","b">>, <<"G","N","B">>>>,
    <<<<"g","u","i","n","e","a"," ","b","i","s","s","a","u">>, <<"G","N","B">>>>,
    <<<<"i","v","o","r","y"," ","c","o","a","s","t">>, <<"C","I","V">>>>,
    <<<<"c","i","v">>, <<"C","I","V">>>>,
    <<<<"c","o^","t","e"," ","d","'","i","v","o","i","r","e">>, <<"C","I","V">>>>,
    <<<<"c","o","t","e"," ","d","'","i","v","o","i","r","e">>, <<"C","I","V">>>>,
    <<<<"k","e","n","y","a">>, <<"K","E","N">>>>, <<<<"k","e","n">>, <<"K","E","N">>>>,
    <<<<"l","e","s","o","t","h","o">>, <<"L","S","O">>>>, <<<<"l","s","o">>, <<"L","S","O">>>>,
    <<<<"l","i","b","e","r","i","a">>, <<"L","B","R">>>>, <<<<"l","b","r">>, <<"L","B","R">>>>,
    <<<<"l","i","b","y","a">>, <<"L","B","Y">>>>, <<<<"l","b","y">>, <<"L","B","Y">>>>,
    <<<<"m","a","d","a","g","a","s","c","a","r">>, <<"M","D","G">>>>,
    <<<<"m","d","g">>, <<"M","D","G">>>>, <<<<"m","a","l","a","w","i">>, <<"M","W","I">>>>,
    <<<<"m","w","i">>, <<"M","W","I">>>>, <<<<"m","a","l","i">>, <<"M","L","I">>>>,
    <<<<"m","l","i">>, <<"M","L","I">>>>,
    <<<<"m","a","u","r","i","t","a","n","i","a">>, <<"M","R","T">>>>,
    <<<<"m","r","t">>, <<"M","R","T">>>>,
    <<<<"m","a","u","r","i","t","i","u","s">>, <<"M","U","S">>>>,
    <<<<"m","u","s">>, <<"M","U","S">>>>, <<<<"m","o","r","o","c","c","o">>, <<"M","A","R">>>>,
    <<<<"m","a","r">>, <<"M","A","R">>>>, <<<<"m","a","r","o","c">>, <<"M","A","R">>>>,
    <<<<"m","o","z","a","m","b","i","q","u","e">>, <<"M","O","Z">>>>,
    <<<<"m","o","z">>, <<"M","O","Z">>>>, <<<<"n","a","m","i","b","i","a">>, <<"N","A","M">>>>,
    <<<<"n","a","m">>, <<"N","A","M">>>>, <<<<"n","i","g","e","r">>, <<"N","E","R">>>>,
    <<<<"n","e","r">>, <<"N","E","R">>>>, <<<<"n","i","g","e","r","i","a">>, <<"N","G","A">>>>,
    <<<<"n","g","a">>, <<"N","G","A">>>>, <<<<"r","w","a","n","d","a">>, <<"R","W","A">>>>,
    <<<<"r","w","a">>, <<"R","W","A">>>>,
    <<<<"s","a~","o"," ","t","o","m","e'"," ","a","n","d"," ","p","r","i'","n","c","i","p","e">>, <<"S","T","P">>>>,
    <<<<"s","t","p">>, <<"S","T","P">>>>,
    <<<<"s","a","o"," ","t","o","m","e"," ","a","n","d"," ","p","r","i","n","c","i","p","e">>, <<"S","T","P">>>>,
    <<<<"s","e","n","e","g","a","l">>, <<"S","E","N">>>>, <<<<"s","e","n">>, <<"S","E","N">>>>,
    <<<<"s","e'","n","e'","g","a","l">>, <<"S","E","N">>>>,
    <<<<"s","e","y","c","h","e","l","l","e","s">>, <<"S","Y","C">>>>,
    <<<<"s","y","c">>, <<"S","Y","C">>>>,
    <<<<"s","i","e","r","r","a"," ","l","e","o","n","e">>, <<"S","L","E">>>>,
    <<<<"s","l","e">>, <<"S","L","E">>>>, <<<<"s","o","m","a","l","i","a">>, <<"S","O","M">>>>,
    <<<<"s","o","m">>, <<"S","O","M">>>>,
    <<<<"s","o","u","t","h"," ","a","f","r","i","c","a">>, <<"Z","A","F">>>>,
    <<<<"z","a","f">>, <<"Z","A","F">>>>, <<<<"r","s","a">>, <<"Z","A","F">>>>,
    <<<<"s","o","u","t","h"," ","s","u","d","a","n">>, <<"S","S","D">>>>,
    <<<<"s","s","d">>, <<"S","S","D">>>>, <<<<"s","u","d","a","n">>, <<"S","D","N">>>>,
    <<<<"s","d","n">>, <<"S","D","N">>>>,
    <<<<"t","a","n","z","a","n","i","a">>, <<"T","Z","A">>>>,
    <<<<"t","z","a">>, <<"T","Z","A">>>>, <<<<"t","o","g","o">>, <<"T","G","O">>>>,
    <<<<"t","g","o">>, <<"T","G","O">>>>, <<<<"t","u","n","i","s","i","a">>, <<"T","U","N">>>>,
    <<<<"t","u","n">>, <<"T","U","N">>>>, <<<<"t","u","n","i","s","i","e">>, <<"T","U","N">>>>,
    <<<<"u","g","a","n","d","a">>, <<"U","G","A">>>>, <<<<"u","g","a">>, <<"U","G","A">>>>,
    <<<<"z","a","m","b","i","a">>, <<"Z","M","B">>>>, <<<<"z","m","b">>, <<"Z","M","B">>>>,
    <<<<"z","i","m","b","a","b","w","e">>, <<"Z","W","E">>>>,
    <<<<"z","w","e">>, <<"Z","W","E">>>>
  >>

(* download_and_update.py AFRICAN_COUNTRIES, in insertion order *)
AFRICAN_COUNTRIES_daily ==
  <<
    <<<<"A","L","G","E","R","I","A">>, <<"D","Z","A">>>>,
    <<<<"A","N","G","O","L","A">>, <<"A","G","O">>>>,
    <<<<"B","E","N","I","N">>, <<"B","E","N">>>>,
    <<<<"B","O","T","S","W","A","N","A">>, <<"B","W","A">>>>,
    <<<<"B","U","R","K","I","N","A"," ","F","A","S","O">>, <<"B","F","A">>>>,
    <<<<"B","U","R","U","N","D","I">>, <<"B","D","I">>>>,
    <<<<"C","A","B","O"," ","V","E","R","D","E">>, <<"C","P","V">>>>,
    <<<<"C","A","M","E","R","O","O","N">>, <<"C","M","R">>>>,
    <<<<"C","E","N","T","R","A","L"," ","A","F","R","I","C","A","N"," ","R","E","P","U","B","L","I","C">>, <<"C","A","F">>>>,
    <<<<"C","H","A","D">>, <<"T","C","D">>>>,
    <<<<"C","O","M","O","R","O","S">>, <<"C","O","M">>>>,
    <<<<"C","O","N","G","O">>, <<"C","O","G">>>>,
    <<<<"D","E","M","O","C","R","A","T","I","C"," ","R","E","P","U","B","L","I","C"," ","O","F"," ","T","H","E"," ","C","O","N","G","O">>, <<"C","O","D">>>>,
    <<<<"D","J","I","B","O","U","T","I">>, <<"D","J","I">>>>,
    <<<<"E","G","Y","P","T">>, <<"E","G","Y">>>>,
    <<<<"E","Q","U","A","T","O","R","I","A","L"," ","G","U","I","N","E","A">>, <<"G","N","Q">>>>,
    <<<<"E","R","I","T","R","E","A">>, <<"E","R","I">>>>,
    <<<<"E","S","W","A","T","I","N","I">>, <<"S","W","Z">>>>,
    <<<<"E","T","H","I","O","P","I","A">>, <<"E","T","H">>>>,
    <<<<"G","A","B","O","N">>, <<"G","A","B">>>>,
    <<<<"G","A","M","B","I","A">>, <<"G","M","B">>>>,
    <<<<"G","H","A","N","A">>, <<"G","H","A">>>>,
    <<<<"G","U","I","N","E","A">>, <<"G","I","N">>>>,
    <<<<"G","U","I","N","E","A","-","B","I","S","S","A","U">>, <<"G","N","B">>>>,
    <<<<"I","V","O","R","Y"," ","C","O","A","S","T">>, <<"C","I","V">>>>,
    <<<<"K","E","N","Y","A">>, <<"K","E","N">>>>,
    <<<<"L","E","S","O","T","H","O">>, <<"L","S","O">>>>,
    <<<<"L","I","B","E","R","I","A">>, <<"L","B","R">>>>,
    <<<<"L","I","B","Y","A">>, <<"L","B","Y">>>>,
    <<<<"M","A","D","A","G","A","S","C","A","R">>, <<"M","D","G">>>>,
    <<<<"M","A","L","A","W","I">>, <<"M","W","I">>>>, <<<<"M","A","L","I">>, <<"M","L","I">>>>,
    <<<<"M","A","U","R","I","T","A","N","I","A">>, <<"M","R","T">>>>,
    <<<<"M","A","U","R","I","T","I","U","S">>, <<"M","U","S">>>>,
    <<<<"M","O","R","O","C","C","O">>, <<"M","A","R">>>>,
    <<<<"M","O","Z","A","M","B","I","Q","U","E">>, <<"M","O","Z">>>>,
    <<<<"N","A","M","I","B","I","A">>, <<"N","A","M">>>>,
    <<<<"N","I","G","E","R">>, <<"N","E","R">>>>,
    <<<<"N","I","G","E","R","I","A">>, <<"N","G","A">>>>,
    <<<<"R","W","A","N","D","A">>, <<"R","W","A">>>>,
    <<<<"S","A","O"," ","T","O","M","E"," ","A","N","D"," ","P","R","I","N","C","I","P","E">>, <<"S","T","P">>>>,
    <<<<"S","E","N","E","G","A","L">>, <<"S","E","N">>>>,
    <<<<"S","E","Y","C","H","E","L","L","E","S">>, <<"S","Y","C">>>>,
    <<<<"S","I","E","R","R","A"," ","L","E","O","N","E">>, <<"S","L","E">>>>,
    <<<<"S","O","M","A","L","I","A">>, <<"S","O","M">>>>,
    <<<<"S","O","U","T","H"," ","A","F","R","I","C","A">>, <<"Z","A","F">>>>,
    <<<<"S","O","U","T","H"," ","S","U","D","A","N">>, <<"S","S","D">>>>,
    <<<<"S","U","D","A","N">>, <<"S","D","N">>>>,
    <<<<"T","A","N","Z","A","N","I","A">>, <<"T","Z","A">>>>,
    <<<<"T","O","G","O">>, <<"T","G","O">>>>,
    <<<<"T","U","N","I","S","I","A">>, <<"T","U","N">>>>,
    <<<<"U","G","A","N","D","A">>, <<"U","G","A">>>>,
    <<<<"Z","A","M","B","I","A">>, <<"Z","M","B">>>>,
    <<<<"Z","I","M","B","A","B","W","E">>, <<"Z","W","E">>>>
  >>

(* sam_utils.py CountryManager.AFRICAN_COUNTRIES, in insertion order *)
AFRICAN_COUNTRIES ==
  <<
    <<<<"A","L","G","E","R","I","A">>, <<"D","Z","A">>>>,
    <<<<"E","G","Y","P","T">>, <<"E","G","Y">>>>, <<<<"L","I","B","Y","A">>, <<"L","B","Y">>>>,
    <<<<"M","O","R","O","C","C","O">>, <<"M","A","R">>>>,
    <<<<"S","U","D","A","N">>, <<"S","D","N">>>>,
    <<<<"T","U","N","I","S","I","A">>, <<"T","U","N">>>>,
    <<<<"B","E","N","I","N">>, <<"B","E","N">>>>,
    <<<<"B","U","R","K","I","N","A"," ","F","A","S","O">>, <<"B","F","A">>>>,
    <<<<"C","A","P","E"," ","V","E","R","D","E">>, <<"C","P","V">>>>,
    <<<<"C","O^","T","E"," ","D","'","I","V","O","I","R","E">>, <<"C","I","V">>>>,
    <<<<"G","A","M","B","I","A">>, <<"G","M","B">>>>,
    <<<<"G","H","A","N","A">>, <<"G","H","A">>>>,
    <<<<"G","U","I","N","E","A">>, <<"G","I","N">>>>,
    <<<<"G","U","I","N","E","A","-","B","I","S","S","A","U">>, <<"G","N","B">>>>,
    <<<<"L","I","B","E","R","I","A">>, <<"L","B","R">>>>,
    <<<<"M","A","L","I">>, <<"M","L","I">>>>,
    <<<<"M","A","U","R","I","T","A","N","I","A">>, <<"M","R","T">>>>,
    <<<<"N","I","G","E","R">>, <<"N","E","R">>>>,
    <<<<"N","I","G","E","R","I","A">>, <<"N","G","A">>>>,
    <<<<"S","E","N","E","G","A","L">>, <<"S","E","N">>>>,
    <<<<"S","I","E","R","R","A"," ","L","E","O","N","E">>, <<"S","L","E">>>>,
    <<<<"T","O","G","O">>, <<"T","G","O">>>>, <<<<"A","N","G","O","L","A">>, <<"A","G","O">>>>,
    <<<<"C","A","M","E","R","O","O","N">>, <<"C","M","R">>>>,
    <<<<"C","E","N","T","R","A","L"," ","A","F","R","I","C","A","N"," ","R","E","P","U","B","L","I","C">>, <<"C","A","F">>>>,
    <<<<"C","H","A","D">>, <<"T","C","D">>>>, <<<<"C","O","N","G","O">>, <<"C","O","G">>>>,
    <<<<"D","E","M","O","C","R","A","T","I","C"," ","R","E","P","U","B","L","I","C"," ","O","F"," ","T","H","E"," ","C","O","N","G","O">>, <<"C","O","D">>>>,
    <<<<"E","Q","U","A","T","O","R","I","A","L"," ","G","U","I","N","E","A">>, <<"G","N","Q">>>>,
    <<<<"G","A","B","O","N">>, <<"G","A","B">>>>,
    <<<<"S","A~","O"," ","T","O","M","E'"," ","A","N","D"," ","P","R","I'","N","C","I","P","E">>, <<"S","T","P">>>>,
    <<<<"B","U","R","U","N","D","I">>, <<"B","D","I">>>>,
    <<<<"C","O","M","O","R","O","S">>, <<"C","O","M">>>>,
    <<<<"D","J","I","B","O","U","T","I">>, <<"D","J","I">>>>,
    <<<<"E","R","I","T","R","E","A">>, <<"E","R","I">>>>,
    <<<<"E","T","H","I","O","P","I","A">>, <<"E","T","H">>>>,
    <<<<"K","E","N","Y","A">>, <<"K","E","N">>>>,
    <<<<"M","A","D","A","G","A","S","C","A","R">>, <<"M","D","G">>>>,
    <<<<"M","A","L","A","W","I">>, <<"M","W","I">>>>,
    <<<<"M","A","U","R","I","T","I","U","S">>, <<"M","U","S">>>>,
    <<<<"M","O","Z","A","M","B","I","Q","U","E">>, <<"M","O","Z">>>>,
    <<<<"R","W","A","N","D","A">>, <<"R","W","A">>>>,
    <<<<"S","E","Y","C","H","E","L","L","E","S">>, <<"S","Y","C">>>>,
    <<<<"S","O","M","A","L","I","A">>, <<"S","O","M">>>>,
    <<<<"S","O","U","T","H"," ","S","U","D","A","N">>, <<"S","S","D">>>>,
    <<<<"T","A","N","Z","A","N","I","A">>, <<"T","Z","A">>>>,
    <<<<"U","G","A","N","D","A">>, <<"U","G","A">>>>,
    <<<<"Z","A","M","B","I","A">>, <<"Z","M","B">>>>,
    <<<<"Z","I","M","B","A","B","W","E">>, <<"Z","W","E">>>>,
    <<<<"B","O","T","S","W","A","N","A">>, <<"B","W","A">>>>,
    <<<<"E","S","W","A","T","I","N","I">>, <<"S","W","Z">>>>,
    <<<<"L","E","S","O","T","H","O">>, <<"L","S","O">>>>,
    <<<<"N","A","M","I","B","I","A">>, <<"N","A","M">>>>,
    <<<<"S","O","U","T","H"," ","A","F","R","I","C","A">>, <<"Z","A","F">>>>
  >>

(* sam_utils.py CountryManager.ALTERNATIVE_NAMES, in insertion order *)
ALTERNATIVE_NAMES ==
  <<
    <<<<"C","A","B","O"," ","V","E","R","D","E">>, <<"C","P","V">>>>,
    <<<<"C","A","P","E"," ","V","E","R","D","E"," ","I","S","L","A","N","D","S">>, <<"C","P","V">>>>,
    <<<<"I","V","O","R","Y"," ","C","O","A","S","T">>, <<"C","I","V">>>>,
    <<<<"C","O","T","E"," ","D","'","I","V","O","I","R","E">>, <<"C","I","V">>>>,
    <<<<"C","O","T","E"," ","D","I","V","O","I","R","E">>, <<"C","I","V">>>>,
    <<<<"D","R","C">>, <<"C","O","D">>>>,
    <<<<"D","R"," ","C","O","N","G","O">>, <<"C","O","D">>>>,
    <<<<"D","E","M","O","C","R","A","T","I","C"," ","R","E","P"," ","O","F"," ","C","O","N","G","O">>, <<"C","O","D">>>>,
    <<<<"D","E","M","O","C","R","A","T","I","C"," ","R","E","P","U","B","L","I","C"," ","O","F"," ","C","O","N","G","O">>, <<"C","O","D">>>>,
    <<<<"C","O","N","G","O",","," ","D","E","M","O","C","R","A","T","I","C"," ","R","E","P","U","B","L","I","C">>, <<"C","O","D">>>>,
    <<<<"C","O","N","G","O","-","K","I","N","S","H","A","S","A">>, <<"C","O","D">>>>,
    <<<<"C","O","N","G","O"," ","K","I","N","S","H","A","S","A">>, <<"C","O","D">>>>,
    <<<<"C","O","N","G","O","-","B","R","A","Z","Z","A","V","I","L","L","E">>, <<"C","O","G">>>>,
    <<<<"C","O","N","G","O"," ","B","R","A","Z","Z","A","V","I","L","L","E">>, <<"C","O","G">>>>,
    <<<<"R","E","P","U","B","L","I","C"," ","O","F"," ","T","H","E"," ","C","O","N","G","O">>, <<"C","O","G">>>>,
    <<<<"C","O","N","G","O",","," ","R","E","P","U","B","L","I","C"," ","O","F">>, <<"C","O","G">>>>,
    <<<<"S","A","O"," ","T","O","M","E"," ","A","N","D"," ","P","R","I","N","C","I","P","E">>, <<"S","T","P">>>>,
    <<<<"S","A","O"," ","T","O","M","E"," ","&"," ","P","R","I","N","C","I","P","E">>, <<"S","T","P">>>>,
    <<<<"S","A","O"," ","T","O","M","E">>, <<"S","T","P">>>>,
    <<<<"S","W","A","Z","I","L","A","N","D">>, <<"S","W","Z">>>>,
    <<<<"K","I","N","G","D","O","M"," ","O","F"," ","E","S","W","A","T","I","N","I">>, <<"S","W","Z">>>>,
    <<<<"T","H","E"," ","G","A","M","B","I","A">>, <<"G","M","B">>>>,
    <<<<"G","A","M","B","I","A",","," ","T","H","E">>, <<"G","M","B">>>>,
    <<<<"G","U","I","N","E","E">>, <<"G","I","N">>>>,
    <<<<"G","U","I","N","E","A"," ","B","I","S","S","A","U">>, <<"G","N","B">>>>,
    <<<<"G","U","I","N","E","E","-","B","I","S","S","A","U">>, <<"G","N","B">>>>,
    <<<<"G","U","I","N","E","E"," ","B","I","S","S","A","U">>, <<"G","N","B">>>>,
    <<<<"T","A","N","Z","A","N","I","E">>, <<"T","Z","A">>>>,
    <<<<"U","N","I","T","E","D"," ","R","E","P","U","B","L","I","C"," ","O","F"," ","T","A","N","Z","A","N","I","A">>, <<"T","Z","A">>>>,
    <<<<"R","E","P","U","B","L","I","Q","U","E"," ","C","E","N","T","R","A","F","R","I","C","A","I","N","E">>, <<"C","A","F">>>>,
    <<<<"C","A","R">>, <<"C","A","F">>>>,
    <<<<"C","E","N","T","R","A","L"," ","A","F","R","I","C","A","N"," ","R","E","P">>, <<"C","A","F">>>>,
    <<<<"R","S","A">>, <<"Z","A","F">>>>,
    <<<<"R","E","P","U","B","L","I","C"," ","O","F"," ","S","O","U","T","H"," ","A","F","R","I","C","A">>, <<"Z","A","F">>>>,
    <<<<"S","O","U","T","H"," ","S","U","D","A","N",","," ","R","E","P","U","B","L","I","C"," ","O","F">>, <<"S","S","D">>>>,
    <<<<"R","E","P","U","B","L","I","C"," ","O","F"," ","S","O","U","T","H"," ","S","U","D","A","N">>, <<"S","S","D">>>>
  >>

(* ID_CANDIDATES_NORM (identical in both scripts) *)
ID_CANDIDATES_NORM ==
  {
    <<"d","o","c","u","m","e","n","t","i","d">>, <<"n","o","t","i","c","e","i","d">>,
    <<"n","o","t","i","c","e","i","d","n","o">>,
    <<"n","o","t","i","c","e","i","d","n","u","m","b","e","r">>,
    <<"o","p","p","o","r","t","u","n","i","t","y","i","d">>,
    <<"r","e","f","e","r","e","n","c","e","i","d">>,
    <<"r","e","f","e","r","e","n","c","e","n","u","m","b","e","r">>, <<"r","e","f","i","d">>,
    <<"s","o","l","i","c","i","t","a","t","i","o","n","i","d">>,
    <<"s","o","l","i","c","i","t","a","t","i","o","n","n","u","m","b","e","r">>,
    <<"s","o","l","n","u","m","b","e","r">>
  }

(***************************************************************************)
(* Date normalisation: DatabaseManager.normalize_posted_date.              *)
(***************************************************************************)
RECURSIVE ToNumber(_)
ToNumber(s) == IF s = <<>> THEN 0 ELSE 10 * ToNumber(SubSeq(s, 1, Len(s) - 1)) + DigitVal(s[Len(s)])

AllDigits(s) == s # <<>> /\ \A i \in 1..Len(s) : IsDigit(s[i])

\* re.match(r'^\d{4}-\d{2}-\d{2}$', s)
IsIsoDateShape(s) ==
  /\ Len(s) = 10
  /\ s[5] = "-"
  /\ s[8] = "-"
  /\ \A i \in {1, 2, 3, 4, 6, 7, 9, 10} : IsDigit(s[i])

\* s.split(sep)
RECURSIVE split(_, _)
split(s, sep) ==
  IF \E i \in 1..Len(s) : s[i] = sep
  THEN LET i == CHOOSE j \in 1..Len(s) : s[j] = sep /\ \A k \in 1..(j - 1) : s[k] # sep
       IN <<SubSeq(s, 1, i - 1)>> \o split(SubSeq(s, i + 1, Len(s)), sep)
  ELSE <<s>>

IsLeap(y) == (y % 4 = 0 /\ y % 100 # 0) \/ y % 400 = 0

DaysInMonth(y, m) ==
  IF m = 2 THEN (IF IsLeap(y) THEN 29 ELSE 28)
  ELSE IF m \in {4, 6, 9, 11} THEN 30 ELSE 31

\* a date pandas can hold as a Timestamp
IsCalendarDate(y, m, d) ==
  /\ y \in 1678..2261
  /\ m \in 1..12
  /\ d \in 1..DaysInMonth(y, m)

NaT == [y |-> 0, m |-> 0, d |-> 0]

IsTimeShape(s) ==
  /\ Len(s) = 8
  /\ s[3] = ":"
  /\ s[6] = ":"
  /\ \A i \in {1, 2, 4, 5, 7, 8} : IsDigit(s[i])
  /\ ToNumber(SubSeq(s, 1, 2)) < 24
  /\ ToNumber(SubSeq(s, 4, 5)) < 60
  /\ ToNumber(SubSeq(s, 7, 8)) < 60

(***************************************************************************)
(* pd.to_datetime(s, errors='coerce') on the layouts of the feed: an ISO   *)
(* date followed by "T" or a blank and a time of day, and a slash date     *)
(* read month first (day first only when the first field cannot be a       *)
(* month).  Any other text, and any date that is not a calendar date, is   *)
(* NaT.                                                                    *)
(***************************************************************************)
pd_to_datetime(s) ==
  LET f == split(s, "/")
      ymd(y, m, d) == IF IsCalendarDate(y, m, d) THEN [y |-> y, m |-> m, d |-> d] ELSE NaT
  IN IF /\ Len(s) = 19
        /\ IsIsoDateShape(SubSeq(s, 1, 10))
        /\ s[11] \in {"T", " "}
        /\ IsTimeShape(SubSeq(s, 12, 19))
     THEN ymd(ToNumber(SubSeq(s, 1, 4)), ToNumber(SubSeq(s, 6, 7)), ToNumber(SubSeq(s, 9, 10)))
     ELSE IF /\ Len(f) = 3
             /\ \A i \in 1..3 : AllDigits(f[i])
             /\ Len(f[1]) \in 1..2
             /\ Len(f[2]) \in 1..2
             /\ Len(f[3]) = 4
     THEN LET a == ToNumber(f[1])
              b == ToNumber(f[2])
              y == ToNumber(f[3])
          IN IF a > 12 THEN ymd(y, b, a) ELSE ymd(y, a, b)
     ELSE NaT

\* the decimal digits of n, zero-padded to width w
RECURSIVE Digits(_, _)
Digits(n, w) == IF w = 0 THEN <<>> ELSE Digits(n \div 10, w - 1) \o <<DigitChars[(n % 10) + 1]>>

\* parsed.strftime('%Y-%m-%d')
strftime(t) == Digits(t.y, 4) \o <<"-">> \o Digits(t.m, 2) \o <<"-">> \o Digits(t.d, 2)

\* date_str.split(' ')[0]
date_part(s) == split(s, " ")[1]

\* the normalisation with the pandas parse as its only recognizer
normalize_posted_date_parse_only(date_str) ==
  IF ~Truthy(date_str) \/ isna(date_str) THEN PyNone
  ELSE LET parsed == pd_to_datetime(strip(str(date_str)))
       IN IF parsed # NaT THEN strftime(parsed) ELSE PyNone

normalize_posted_date(date_str) ==
  IF ~Truthy(date_str) \/ isna(date_str) THEN PyNone
  ELSE LET s == strip(str(date_str))
       IN IF IsIsoDateShape(s) THEN s
          ELSE IF Contains(<<" ">>, s) /\ IsIsoDateShape(date_part(s)) THEN date_part(s)
          ELSE LET parsed == pd_to_datetime(s)
               IN IF parsed # NaT THEN strftime(parsed) ELSE PyNone

(***************************************************************************)
(* Region classification and standardisation.                              *)
(***************************************************************************)
\* dict helpers on a table <<key, value>>, ... kept in insertion order
Keys(tbl) == {tbl[i][1] : i \in DOMAIN tbl}

Values(tbl) == {tbl[i][2] : i \in DOMAIN tbl}

Lookup(tbl, k) == tbl[CHOOSE i \in DOMAIN tbl : tbl[i][1] = k][2]

\* str(row.get(col, "") or "").strip() of both filter_african_rows.row_matches
region_text(v) == strip(str(OrEmpty(v)))

\* bootstrap_historical.py filter_african_rows.row_matches
row_matches(pop_value, cc_value) ==
  LET pop == region_text(pop_value)
      cc == region_text(cc_value)
      pop_lower == lower(pop)
      cc_lower == lower(cc)
  IN \/ upper(cc) \in AFRICA_ISO3
     \/ upper(pop) \in AFRICA_ISO3
     \/ pop_lower \in Keys(AFRICA_MAPPINGS)
     \/ cc_lower \in Keys(AFRICA_MAPPINGS)
     \/ \E i \in DOMAIN AFRICA_MAPPINGS :
          \/ Contains(AFRICA_MAPPINGS[i][1], pop_lower)
          \/ Contains(AFRICA_MAPPINGS[i][1], cc_lower)

\* download_and_update.py filter_african_rows.row_matches
row_matches_daily(pop_value, cc_value) ==
  LET pop == region_text(pop_value)
      cc == region_text(cc_value)
      pop_lower == lower(pop)
      cc_lower == lower(cc)
  IN \/ upper(cc) \in AFRICA_ISO3 \/ upper(pop) \in AFRICA_ISO3
     \/ pop_lower \in Keys(AFRICA_MAPPINGS_daily) \/ cc_lower \in Keys(AFRICA_MAPPINGS_daily)
     \/ \E i \in DOMAIN AFRICA_MAPPINGS_daily :
          \/ Contains(AFRICA_MAPPINGS_daily[i][1], pop_lower)
          \/ Contains(AFRICA_MAPPINGS_daily[i][1], cc_lower)
     \/ \E iso \in AFRICA_ISO3 : Contains(iso, upper(pop)) \/ Contains(iso, upper(cc))

\* bootstrap_historical.py standardize_country_code
standardize_country_code(value) ==
  IF ~Truthy(value) THEN value
  ELSE LET cleaned == lower(strip(str(value)))
       IN IF upper(cleaned) \in AFRICA_ISO3 THEN upper(cleaned)
          ELSE IF cleaned \in Keys(AFRICA_MAPPINGS) THEN Lookup(AFRICA_MAPPINGS, cleaned)
          ELSE value

\* download_and_update.py format_country_display
format_country_display(iso_code) ==
  IF iso_code \in Values(AFRICAN_COUNTRIES_daily)
  THEN LET i == CHOOSE j \in DOMAIN AFRICAN_COUNTRIES_daily :
                  /\ AFRICAN_COUNTRIES_daily[j][2] = iso_code
                  /\ \A k \in 1..(j - 1) : AFRICAN_COUNTRIES_daily[k][2] # iso_code
       IN AFRICAN_COUNTRIES_daily[i][1] \o <<" ", "(">> \o iso_code \o <<")">>
  ELSE iso_code

\* download_and_update.py standardize_country_code
standardize_country_code_daily(value) ==
  IF ~Truthy(value) THEN value
  ELSE LET cleaned == lower(strip(str(value)))
           hits == {i \in DOMAIN AFRICA_MAPPINGS_daily :
                      Contains(AFRICA_MAPPINGS_daily[i][1], cleaned)}
       IN IF upper(cleaned) \in AFRICA_ISO3 THEN format_country_display(upper(cleaned))
          ELSE IF cleaned \in Keys(AFRICA_MAPPINGS_daily)
          THEN format_country_display(Lookup(AFRICA_MAPPINGS_daily, cleaned))
          ELSE IF hits # {}
          THEN format_country_display(
                 AFRICA_MAPPINGS_daily[CHOOSE i \in hits : \A j \in hits : i <= j][2])
          ELSE value

\* sam_utils.py CountryManager.__init__: iso3_codes, all_lookups
iso3_codes == Values(AFRICAN_COUNTRIES)

all_lookups ==
  [k \in {upper(x) : x \in Keys(AFRICAN_COUNTRIES) \cup Keys(ALTERNATIVE_NAMES)} |->
     IF \E i \in DOMAIN ALTERNATIVE_NAMES : upper(ALTERNATIVE_NAMES[i][1]) = k
     THEN ALTERNATIVE_NAMES[CHOOSE i \in DOMAIN ALTERNATIVE_NAMES :
                              upper(ALTERNATIVE_NAMES[i][1]) = k][2]
     ELSE AFRICAN_COUNTRIES[CHOOSE i \in DOMAIN AFRICAN_COUNTRIES :
                              upper(AFRICAN_COUNTRIES[i][1]) = k][2]]

\* sam_utils.py CountryManager.__init__: iso_to_country
iso_to_country == [c \in iso3_codes |-> AFRICAN_COUNTRIES[CHOOSE i \in DOMAIN AFRICAN_COUNTRIES :
                      /\ AFRICAN_COUNTRIES[i][2] = c
                      /\ \A j \in (i + 1)..Len(AFRICAN_COUNTRIES) : AFRICAN_COUNTRIES[j][2] # c][1]]

NonCountryValues ==
  {<<"N", "O", "N", "E">>, <<"N", "U", "L", "L">>, <<"N", "/", "A">>,
   <<"U", "N", "K", "N", "O", "W", "N">>, <<>>}

\* the classification without its stage for raw three-letter codes
is_african_country_without_code_stage(value) ==
  IF ~Truthy(value) \/ isna(value) THEN FALSE
  ELSE LET value_clean == strip(upper(str(value)))
       IN IF value_clean \in NonCountryValues THEN FALSE
          ELSE IF value_clean \in DOMAIN all_lookups THEN TRUE
          ELSE /\ Len(value_clean) > 3
               /\ \E k \in Keys(AFRICAN_COUNTRIES) \cup Keys(ALTERNATIVE_NAMES) :
                    Contains(k, value_clean) \/ Contains(value_clean, k)

\* sam_utils.py CountryManager.is_african_country
is_african_country(value) ==
  IF ~Truthy(value) \/ isna(value) THEN FALSE
  ELSE LET value_clean == strip(upper(str(value)))
           iso_match == IsoInParens(value_clean)
       IN IF value_clean \in NonCountryValues THEN FALSE
          ELSE IF Len(value_clean) = 3 /\ isalpha(value_clean) THEN value_clean \in iso3_codes
          ELSE IF /\ Contains(<<"(">>, value_clean)
                  /\ Contains(<<")">>, value_clean)
                  /\ iso_match # PyNone
          THEN iso_match \in iso3_codes
          ELSE IF value_clean \in DOMAIN all_lookups THEN TRUE
          ELSE /\ Len(value_clean) > 3
               /\ \/ \E k \in Keys(AFRICAN_COUNTRIES) :
                       Contains(k, value_clean) \/ Contains(value_clean, k)
                  \/ \E k \in Keys(ALTERNATIVE_NAMES) :
                       Contains(k, value_clean) \/ Contains(value_clean, k)

\* sam_utils.py CountryManager.standardize_country
standardize_country(value) ==
  IF ~Truthy(value) \/ isna(value) THEN value
  ELSE LET value_clean == strip(upper(str(value)))
           raw_match == IsoInParens(value)
           clean_match == IsoInParens(value_clean)
           iso_code ==
             IF Len(value_clean) = 3 /\ isalpha(value_clean) /\ value_clean \in iso3_codes
             THEN value_clean
             ELSE IF value_clean \in DOMAIN all_lookups THEN all_lookups[value_clean]
             ELSE IF /\ Contains(<<"(">>, value_clean)
                     /\ Contains(<<")">>, value_clean)
                     /\ clean_match # PyNone
                     /\ clean_match \in iso3_codes
             THEN clean_match
             ELSE PyNone
       IN IF /\ Contains(<<"(">>, value)
             /\ Contains(<<")">>, value)
             /\ raw_match # PyNone
             /\ raw_match \in iso3_codes
          THEN value
          ELSE IF iso_code # PyNone /\ iso_code \in DOMAIN iso_to_country
          THEN iso_to_country[iso_code] \o <<" ", "(">> \o iso_code \o <<")">>
          ELSE value

(***************************************************************************)
(* Data frames and column names.  A frame is [cols, rows, index]: the       *)
(* header, the rows, each row the sequence of its cells in header order,   *)
(* and the pandas index, the position in the file of each row (filtering   *)
(* keeps it).  A column name is text too (ensure_notice_id_column          *)
(* normalises it).                                                         *)
(***************************************************************************)
cNoticeId == <<"N", "o", "t", "i", "c", "e", "I", "d">>

cNoticeID == <<"N", "o", "t", "i", "c", "e", "I", "D">>

cTitle == <<"T", "i", "t", "l", "e">>

cPostedDate == <<"P", "o", "s", "t", "e", "d", "D", "a", "t", "e">>

cPopCountry == <<"P", "o", "p", "C", "o", "u", "n", "t", "r", "y">>

cCountryCode == <<"C", "o", "u", "n", "t", "r", "y", "C", "o", "d", "e">>

cType == <<"T", "y", "p", "e">>

cLink == <<"L", "i", "n", "k">>

cAwardNumber == <<"A", "w", "a", "r", "d", "N", "u", "m", "b", "e", "r">>

\* a column that names another record (its normalised name holds "noticeid")
cRelatedNoticeId == <<"R", "e", "l", "a", "t", "e", "d", "N", "o", "t", "i", "c", "e", "I", "d">>

cPostedDate_normalized == <<"P", "o", "s", "t", "e", "d", "D", "a", "t", "e", "_", "n", "o", "r", "m", "a", "l", "i", "z", "e", "d">>

\* c in df.columns
HasCol(cols, c) == \E i \in DOMAIN cols : cols[i] = c

ColIndex(cols, c) == CHOOSE i \in DOMAIN cols : cols[i] = c

\* row.get(c, default)
RowGet(cols, row, c, default) == IF HasCol(cols, c) THEN row[ColIndex(cols, c)] ELSE default

\* df[c] = cells, for a column the frame does not have yet
WithColumn(df, c, cells) ==
  [cols |-> Append(df.cols, c),
   rows |-> [i \in DOMAIN df.rows |-> Append(df.rows[i], cells[i])],
   index |-> df.index]

\* df[c] = cells, for a column of the frame
SetColumn(df, c, cells) ==
  [cols |-> df.cols,
   rows |-> [i \in DOMAIN df.rows |-> [df.rows[i] EXCEPT ![ColIndex(df.cols, c)] = cells[i]]],
   index |-> df.index]

\* the positions from i on at which the mask is true
RECURSIVE KeptPositions(_, _)
KeptPositions(mask, i) ==
  IF i > Len(mask) THEN <<>>
  ELSE (IF mask[i] THEN <<i>> ELSE <<>>) \o KeptPositions(mask, i + 1)

\* df[mask].copy(): the rows whose mask is true, with their index labels
SelectRows(df, mask) ==
  LET kept == KeptPositions(mask, 1)
  IN [cols |-> df.cols,
      rows |-> [k \in DOMAIN kept |-> df.rows[kept[k]]],
      index |-> [k \in DOMAIN kept |-> df.index[kept[k]]]]

\* pd.DataFrame()
EmptyFrame == [cols |-> <<>>, rows |-> <<>>, index |-> <<>>]

(***************************************************************************)
(* Region filters of the three paths.                                      *)
(***************************************************************************)
\* for c in ("PopCountry", "CountryCode"): if c not in df.columns: df[c] = ""
WithRegionColumns(df) ==
  LET blank == [i \in DOMAIN df.rows |-> <<>>]
      d1 == IF HasCol(df.cols, cPopCountry) THEN df ELSE WithColumn(df, cPopCountry, blank)
  IN IF HasCol(d1.cols, cCountryCode) THEN d1 ELSE WithColumn(d1, cCountryCode, blank)

\* the filter without its mask
filter_all_rows(df) == WithRegionColumns(df)

\* bootstrap_historical.py filter_african_rows
filter_african_rows(df) ==
  LET d == WithRegionColumns(df)
      mask == [i \in DOMAIN d.rows |->
                 row_matches(RowGet(d.cols, d.rows[i], cPopCountry, <<>>),
                             RowGet(d.cols, d.rows[i], cCountryCode, <<>>))]
  IN SelectRows(d, mask)

\* download_and_update.py filter_african_rows
filter_african_rows_daily(df) ==
  LET d == WithRegionColumns(df)
      mask == [i \in DOMAIN d.rows |->
                 row_matches_daily(RowGet(d.cols, d.rows[i], cPopCountry, <<>>),
                                   RowGet(d.cols, d.rows[i], cCountryCode, <<>>))]
  IN SelectRows(d, mask)

\* sam_utils.py DataProcessor.process_chunk
process_chunk(chunk) ==
  IF chunk.rows = <<>> THEN chunk
  ELSE IF ~HasCol(chunk.cols, cPopCountry) THEN EmptyFrame
  ELSE LET pop == ColIndex(chunk.cols, cPopCountry)
           african_mask == [i \in DOMAIN chunk.rows |-> is_african_country(chunk.rows[i][pop])]
           african_data == SelectRows(chunk, african_mask)
       IN IF african_data.rows # <<>>
          THEN SetColumn(african_data, cPopCountry,
                         [i \in DOMAIN african_data.rows |->
                            standardize_country(african_data.rows[i][pop])])
          ELSE african_data

(***************************************************************************)
(* Identity resolution: ensure_notice_id_column (the same text in both     *)
(* scripts).                                                               *)
(***************************************************************************)
AsciiLowerOrDigit == {LowerCase[i] : i \in 1..26} \cup {DigitChars[i] : i \in DOMAIN DigitChars}

\* norm(s): re.sub(r"[^a-z0-9]+", "", (s or "").lower())
norm(s) ==
  LET Keep(c) == c \in AsciiLowerOrDigit
  IN SelectSeq(lower(OrEmpty(s)), Keep)

\* the test of the loop over normalized_map
IsIdKey(key) ==
  \/ key \in ID_CANDIDATES_NORM
  \/ Contains(<<"n", "o", "t", "i", "c", "e", "i", "d">>, key)
  \/ Contains(<<"d", "o", "c", "u", "m", "e", "n", "t", "i", "d">>, key)
  \/ Contains(<<"o", "p", "p", "o", "r", "t", "u", "n", "i", "t", "y", "i", "d">>, key)

\* hashlib.sha1(s.encode("utf-8", errors="ignore")).hexdigest()[:24]: the digest
\* is a symbol of its preimage (no two texts collide)
Sha1Hex24(s) == <<"sha1[">> \o s \o <<"]">>

RECURSIVE join(_, _)
join(sep, parts) ==
  IF parts = <<>> THEN <<>>
  ELSE IF Len(parts) = 1 THEN parts[1]
  ELSE parts[1] \o sep \o join(sep, Tail(parts))

\* str(row.to_dict()): the cells of the row, in header order
RECURSIVE row_text(_)
row_text(row) == IF row = <<>> THEN <<>> ELSE <<"[">> \o str(row[1]) \o <<"]">> \o row_text(Tail(row))

HashFields == <<cTitle, cPostedDate, cType, cLink, cAwardNumber, cCountryCode, cPopCountry>>

\* ensure_notice_id_column.make_hash
make_hash(cols, row) ==
  LET parts == [i \in DOMAIN HashFields |-> str(OrEmpty(RowGet(cols, row, HashFields[i], PyNone)))]
      s == strip(join(<<"|">>, parts))
  IN Sha1Hex24(IF s # <<>> THEN s ELSE row_text(row))

\* identity resolution that hashes a row together with its index label
ensure_notice_id_column_by_position(df) ==
  IF HasCol(df.cols, cNoticeID) THEN df
  ELSE WithColumn(df, cNoticeID,
                  [i \in DOMAIN df.rows |->
                     Sha1Hex24(row_text(df.rows[i]) \o Digits(df.index[i], 1))])

ensure_notice_id_column(df) ==
  IF HasCol(df.cols, cNoticeID) THEN df
  ELSE IF \E i \in DOMAIN df.cols : IsIdKey(norm(df.cols[i]))
  THEN LET first == CHOOSE i \in DOMAIN df.cols :
                      /\ IsIdKey(norm(df.cols[i]))
                      /\ \A j \in 1..(i - 1) : ~IsIdKey(norm(df.cols[j]))
           \* normalized_map keeps, for a key, the last column that normalises to it
           actual == CHOOSE i \in DOMAIN df.cols :
                       /\ norm(df.cols[i]) = norm(df.cols[first])
                       /\ \A j \in (i + 1)..Len(df.cols) : norm(df.cols[j]) # norm(df.cols[first])
       IN WithColumn(df, cNoticeID, [i \in DOMAIN df.rows |-> str(df.rows[i][actual])])
  ELSE WithColumn(df, cNoticeID, [i \in DOMAIN df.rows |-> make_hash(df.cols, df.rows[i])])

(***************************************************************************)
(* The opportunities table.  The store is the sequence of its rows in      *)
(* rowid order; a row maps each column to its value.  Of the columns of    *)
(* the source (config.sam_columns, KEEP_COLUMNS) the model carries the     *)
(* ones the pipeline reads: the identity, the two region columns, the      *)
(* posted date and its normalised form, and Title, which stands for every  *)
(* column that is only copied.  SQLite matches column names without regard *)
(* to case, so "NoticeID" of the scripts and NoticeId of sam_utils.py are  *)
(* the same column.  Link is not carried, so fix_sam_gov_links of the      *)
(* scripts has nothing to rewrite.                                         *)
(***************************************************************************)
StoreColumns == {cNoticeId, cTitle, cPostedDate, cPostedDate_normalized, cPopCountry, cCountryCode}

sam_columns == <<cNoticeId, cTitle, cPostedDate, cPopCountry, cCountryCode>>

KEEP_COLUMNS == <<cTitle, cPostedDate, cPopCountry, cCountryCode>>

SqlNull == PyNone

\* a lookup that finds no identity
HasIdNever(st, nid) == FALSE

\* SELECT ... WHERE NoticeId = ?
HasId(st, nid) == \E i \in DOMAIN st : st[i][cNoticeId] = nid

RowOf(st, nid) == CHOOSE i \in DOMAIN st : st[i][cNoticeId] = nid

\* the table without its UNIQUE constraint
SqlInsertNoUnique(st, row) == [ok |-> TRUE, store |-> Append(st, row)]

\* INSERT of a row under NoticeId TEXT UNIQUE: refused when the identity is stored
SqlInsert(st, row) ==
  IF HasId(st, row[cNoticeId]) THEN [ok |-> FALSE, store |-> st]
  ELSE [ok |-> TRUE, store |-> Append(st, row)]

\* row[col] if pd.notna(row[col]) else None
NoneIfNa(v) == IF isna(v) THEN PyNone ELSE v

(***************************************************************************)
(* DatabaseManager.insert_or_update_batch.                                 *)
(***************************************************************************)
\* the UPDATE statement: every column of sam_columns the frame has, but NoticeId
UpdatedRow(old, cols, row, new_norm) ==
  [c \in StoreColumns |->
     IF c = cPostedDate_normalized THEN new_norm
     ELSE IF c # cNoticeId /\ HasCol(sam_columns, c) /\ HasCol(cols, c)
     THEN NoneIfNa(row[ColIndex(cols, c)])
     ELSE old[c]]

\* the row of the INSERT statement
InsertedRow(notice_id, cols, row) ==
  [c \in StoreColumns |->
     IF c = cNoticeId THEN notice_id
     ELSE IF c = cPostedDate_normalized
     THEN normalize_posted_date(RowGet(cols, row, cPostedDate, <<>>))
     ELSE IF HasCol(sam_columns, c) /\ HasCol(cols, c) THEN NoneIfNa(row[ColIndex(cols, c)])
     ELSE SqlNull]

\* the comparison with >= in place of >
IsMoreRecentOrEqual(new_norm, existing_norm) ==
  /\ Truthy(new_norm)
  /\ Truthy(existing_norm)
  /\ ~StrLess(new_norm, existing_norm)

\* the comparison without its test of new_norm
IsMoreRecentOrUndated(new_norm, existing_norm) ==
  \/ ~Truthy(new_norm)
  \/ Truthy(existing_norm) /\ StrLess(existing_norm, new_norm)

\* the comparison that takes a dated row for more recent than an undated one
IsMoreRecentOrFirstDate(new_norm, existing_norm) ==
  /\ Truthy(new_norm)
  /\ ~Truthy(existing_norm) \/ StrLess(existing_norm, new_norm)

\* if new_norm and existing_norm and new_norm > existing_norm
IsMoreRecent(new_norm, existing_norm) ==
  /\ Truthy(new_norm)
  /\ Truthy(existing_norm)
  /\ StrLess(existing_norm, new_norm)

\* if not notice_id or notice_id in ['nan', 'None', '']
invalid_notice_id(notice_id) ==
  \/ ~Truthy(notice_id)
  \/ notice_id \in {<<"n", "a", "n">>, <<"N", "o", "n", "e">>, <<>>}

\* one iteration of "for _, row in df.iterrows()" on the store st
upsert_row(st, cols, row) ==
  LET notice_id == strip(str(RowGet(cols, row, cNoticeId, <<>>)))
  IN IF invalid_notice_id(notice_id)
     THEN [store |-> st, nid |-> notice_id, outcome |-> "skipped"]
     ELSE IF HasId(st, notice_id)
     THEN LET k == RowOf(st, notice_id)
              existing_norm == normalize_posted_date(st[k][cPostedDate])
              new_norm == normalize_posted_date(RowGet(cols, row, cPostedDate, <<>>))
          IN IF IsMoreRecent(new_norm, existing_norm)
             THEN [store |-> [st EXCEPT ![k] = UpdatedRow(@, cols, row, new_norm)],
                   nid |-> notice_id, outcome |-> "updated"]
             ELSE [store |-> st, nid |-> notice_id, outcome |-> "skipped"]
     ELSE LET r == SqlInsert(st, InsertedRow(notice_id, cols, row))
          IN [store |-> r.store, nid |-> notice_id,
              outcome |-> IF r.ok THEN "inserted" ELSE "skipped"]

\* the rows of df from position i on, applied in order; an entry per row keeps
\* the outcome and the table before and after it
RECURSIVE upsert_rows(_, _, _)
upsert_rows(st, df, i) ==
  IF i > Len(df.rows) THEN [store |-> st, entries |-> <<>>]
  ELSE LET r == upsert_row(st, df.cols, df.rows[i])
           rest == upsert_rows(r.store, df, i + 1)
       IN [store |-> rest.store,
           entries |-> <<[idx |-> df.index[i], nid |-> r.nid, outcome |-> r.outcome,
                          sb |-> st, sa |-> r.store]>> \o rest.entries]

insert_or_update_batch(st, df) ==
  IF df.rows = <<>> THEN [store |-> st, entries |-> <<>>]
  ELSE upsert_rows(st, df, 1)

(***************************************************************************)
(* insert_new_rows_chunk of the two scripts.                               *)
(***************************************************************************)
\* the guard of the row loop that lets every identity through
no_notice_id_never(nid) == FALSE

\* if not nid or nid.lower() == "nan": continue
no_notice_id(nid) == ~Truthy(nid) \/ lower(nid) = <<"n", "a", "n">>

\* the row loop, the same in both scripts: INSERT, and IntegrityError is a duplicate
RECURSIVE insert_rows(_, _, _)
insert_rows(st, df, i) ==
  IF i > Len(df.rows) THEN [store |-> st, entries |-> <<>>]
  ELSE LET row == df.rows[i]
           \* df_chunk["NoticeID"].astype(str), a missing column being None
           nid == strip(OrEmpty(str(RowGet(df.cols, row, cNoticeID, PyNone))))
           vals == [c \in StoreColumns |->
                      IF c = cNoticeId THEN nid
                      ELSE IF HasCol(KEEP_COLUMNS, c)
                      THEN str(OrEmpty(RowGet(df.cols, row, c, PyNone)))
                      ELSE SqlNull]
           r == IF no_notice_id(nid)
                THEN [store |-> st, outcome |-> "no_id"]
                ELSE LET q == SqlInsert(st, vals)
                     IN [store |-> q.store,
                         outcome |-> IF q.ok THEN "inserted" ELSE "duplicate"]
           rest == insert_rows(r.store, df, i + 1)
       IN [store |-> rest.store,
           entries |-> <<[idx |-> df.index[i], nid |-> nid, outcome |-> r.outcome,
                          sb |-> st, sa |-> r.store]>> \o rest.entries]

\* df_chunk[c] = df_chunk[c].apply(standardize_country_code) for the region columns
StandardizeRegions(df) ==
  LET pop == [i \in DOMAIN df.rows |->
                standardize_country_code(RowGet(df.cols, df.rows[i], cPopCountry, <<>>))]
      d1 == IF HasCol(df.cols, cPopCountry) THEN SetColumn(df, cPopCountry, pop) ELSE df
      cc == [i \in DOMAIN d1.rows |->
               standardize_country_code(RowGet(d1.cols, d1.rows[i], cCountryCode, <<>>))]
  IN IF HasCol(d1.cols, cCountryCode) THEN SetColumn(d1, cCountryCode, cc) ELSE d1

StandardizeRegions_daily(df) ==
  LET pop == [i \in DOMAIN df.rows |->
                standardize_country_code_daily(RowGet(df.cols, df.rows[i], cPopCountry, <<>>))]
      d1 == IF HasCol(df.cols, cPopCountry) THEN SetColumn(df, cPopCountry, pop) ELSE df
      cc == [i \in DOMAIN d1.rows |->
               standardize_country_code_daily(RowGet(d1.cols, d1.rows[i], cCountryCode, <<>>))]
  IN IF HasCol(d1.cols, cCountryCode) THEN SetColumn(d1, cCountryCode, cc) ELSE d1

\* bootstrap_historical.py insert_new_rows_chunk
insert_new_rows_chunk(st, df_chunk) == insert_rows(st, StandardizeRegions(df_chunk), 1)

\* download_and_update.py insert_new_rows_chunk
insert_new_rows_chunk_daily(st, df_chunk) == insert_rows(st, StandardizeRegions_daily(df_chunk), 1)

(***************************************************************************)
(* The source files the runs read.  A file is what pd.read_csv(dtype=str)  *)
(* makes of it: a header and rows of cells, a cell being a string or nan   *)
(* (an empty cell).  The header is that of the SAM.gov extract, or one     *)
(* with neither an identifier nor a PopCountry column, or one whose only   *)
(* identifier-like column is RelatedNoticeId, or one without Title and     *)
(* CountryCode.                                                            *)
(***************************************************************************)

Files ==
  <<
    \* file 1
    [cols |-> <<cNoticeId, cTitle, cPostedDate, cPopCountry, cCountryCode>>,
     rows |-> <<
       <<<<"A", "1">>,
         <<"R", "o", "a", "d", " ", "w", "o", "r", "k", "s">>,
         <<"2", "0", "2", "3", "-", "0", "6", "-", "0", "1">>,
         <<"K", "e", "n", "y", "a">>,
         <<"K", "E", "N">>>>,
       <<<<"A", "1">>,
         <<"R", "o", "a", "d", " ", "w", "o", "r", "k", "s", " ", "I", "I">>,
         <<"2", "0", "2", "4", "-", "0", "1", "-", "0", "1">>,
         <<"K", "e", "n", "y", "a">>,
         <<"K", "E", "N">>>>
     >>],
    \* file 2
    [cols |-> <<cNoticeId, cTitle, cPostedDate, cPopCountry, cCountryCode>>,
     rows |-> <<
       <<<<"A", "1">>,
         <<"R", "o", "a", "d", " ", "w", "o", "r", "k", "s", " ", "I", "I">>,
         <<"2", "0", "2", "4", "-", "0", "1", "-", "0", "1">>,
         <<"K", "e", "n", "y", "a">>,
         <<"K", "E", "N">>>>,
       <<<<"A", "1">>,
         <<"R", "o", "a", "d", " ", "w", "o", "r", "k", "s">>,
         <<"2", "0", "2", "3", "-", "0", "6", "-", "0", "1">>,
         <<"K", "e", "n", "y", "a">>,
         <<"K", "E", "N">>>>
     >>],
    \* file 3
    [cols |-> <<cNoticeId, cTitle, cPostedDate, cPopCountry, cCountryCode>>,
     rows |-> <<
       <<<<"A", "1">>,
         <<"R", "o", "a", "d", " ", "w", "o", "r", "k", "s", " ", "I", "I", "I">>,
         <<"g", "a", "r", "b", "a", "g", "e">>,
         <<"K", "E", "N", "Y", "A", " ", "(", "K", "E", "N", ")">>,
         <<"K", "E", "N">>>>
     >>],
    \* file 4
    [cols |-> <<cNoticeId, cTitle, cPostedDate, cPopCountry, cCountryCode>>,
     rows |-> <<
       <<<<" ", "A", "1", " ">>,
         <<"R", "o", "a", "d", " ", "w", "o", "r", "k", "s", " ", "I", "V">>,
         <<"0", "3", "/", "0", "4", "/", "2", "0", "2", "4">>,
         <<"k", "e", "n", "y", "a">>,
         PyNaN>>
     >>],
    \* file 5
    [cols |-> <<cNoticeId, cTitle, cPostedDate, cPopCountry, cCountryCode>>,
     rows |-> <<
       <<<<"B", "2">>,
         <<"P", "o", "r", "t">>,
         <<"2", "0", "2", "4", "-", "1", "0", "-", "0", "6", "T", "1", "2", ":", "0", "0", ":", "0", "0">>,
         <<"V", "i", "e", "t", "n", "a", "m">>,
         <<"U", "S", "A">>>>,
       <<<<"C", "3">>,
         <<"B", "a", "s", "e">>,
         <<"2", "0", "2", "4", "-", "1", "0", "-", "0", "6", " ", "1", "2", ":", "0", "0", ":", "0", "0">>,
         <<"U", "n", "i", "t", "e", "d", " ", "S", "t", "a", "t", "e", "s">>,
         <<"U", "S", "A">>>>
     >>],
    \* file 6
    [cols |-> <<cNoticeId, cTitle, cPostedDate, cPopCountry, cCountryCode>>,
     rows |-> <<
       <<<<"D", "4">>,
         <<"C", "l", "i", "n", "i", "c">>,
         <<"2", "0", "2", "4", "-", "0", "2", "-", "0", "2">>,
         <<"U", "n", "i", "t", "e", "d", " ", "S", "t", "a", "t", "e", "s">>,
         <<"K", "E", "N">>>>,
       <<<<"E", "5">>,
         <<"E", "m", "b", "a", "s", "s", "y">>,
         <<"2", "0", "2", "4", "-", "1", "3", "-", "4", "5">>,
         <<"P", "a", "p", "u", "a", " ", "N", "e", "w", " ", "G", "u", "i", "n", "e", "a">>,
         PyNaN>>
     >>],
    \* file 7
    [cols |-> <<cNoticeId, cTitle, cPostedDate, cPopCountry, cCountryCode>>,
     rows |-> <<
       <<<<" ", " ">>,
         <<"B", "l", "a", "n", "k", " ", "i", "d">>,
         <<"2", "0", "2", "4", "-", "0", "1", "-", "0", "1">>,
         <<"G", "h", "a", "n", "a">>,
         <<"G", "H", "A">>>>,
       <<PyNaN,
         <<"M", "i", "s", "s", "i", "n", "g", " ", "i", "d">>,
         <<"2", "0", "2", "4", "-", "0", "1", "-", "0", "1">>,
         <<"G", "h", "a", "n", "a">>,
         <<"G", "H", "A">>>>,
       <<<<"G", "7">>,
         <<"G", "o", "o", "d", " ", "i", "d">>,
         <<"2", "0", "2", "4", "-", "0", "1", "-", "0", "1">>,
         <<"G", "h", "a", "n", "a">>,
         <<"G", "H", "A">>>>
     >>],
    \* file 8
    [cols |-> <<cTitle, cPostedDate, cCountryCode>>,
     rows |-> <<
       <<<<"R", "o", "a", "d", " ", "s", "u", "r", "v", "e", "y">>,
         <<"0", "3", "/", "0", "4", "/", "2", "0", "2", "4">>,
         <<"K", "E", "N">>>>,
       <<<<"B", "r", "i", "d", "g", "e">>,
         <<"0", "3", "/", "0", "5", "/", "2", "0", "2", "4">>,
         <<"U", "S", "A">>>>
     >>],
    \* file 9
    [cols |-> <<cTitle, cPostedDate, cCountryCode>>,
     rows |-> <<
       <<<<"B", "r", "i", "d", "g", "e">>,
         <<"0", "3", "/", "0", "5", "/", "2", "0", "2", "4">>,
         <<"U", "S", "A">>>>,
       <<<<"W", "e", "l", "l">>,
         PyNaN,
         <<"M", "a", "l", "i">>>>,
       <<<<"R", "o", "a", "d", " ", "s", "u", "r", "v", "e", "y">>,
         <<"0", "3", "/", "0", "4", "/", "2", "0", "2", "4">>,
         <<"K", "E", "N">>>>
     >>],
    \* file 10
    [cols |-> <<cRelatedNoticeId, cTitle, cPostedDate, cPopCountry, cCountryCode>>,
     rows |-> <<
       <<<<" ", "R", "9", " ">>,
         <<"D", "a", "m">>,
         <<"2", "0", "2", "4", "-", "0", "5", "-", "0", "5">>,
         <<"K", "e", "n", "y", "a">>,
         <<"K", "E", "N">>>>
     >>],
    \* file 11
    [cols |-> <<cNoticeId, cPostedDate, cPopCountry>>,
     rows |-> <<
       <<<<"A", "1">>,
         <<"2", "0", "2", "5", "-", "0", "1", "-", "0", "1">>,
         <<"K", "e", "n", "y", "a">>>>
     >>]
  >>

Min(a, b) == IF a <= b THEN a ELSE b

\* the chunks of pd.read_csv(..., chunksize): ChunkRows rows each, the index
\* running on through the file
CsvChunks(file) ==
  LET n == Len(file.rows)
      k == (n + ChunkRows - 1) \div ChunkRows
  IN [c \in 1..k |->
        LET first == (c - 1) * ChunkRows + 1
            last == Min(c * ChunkRows, n)
        IN [cols |-> file.cols,
            rows |-> SubSeq(file.rows, first, last),
            index |-> [j \in 1..(last - first + 1) |-> first + j - 1]]]

\* iter_csv_chunks of the two scripts: chunk.columns = [c.strip() for c in chunk.columns]
iter_csv_chunks(file) ==
  LET chunks == CsvChunks(file)
  IN [c \in DOMAIN chunks |->
        [chunks[c] EXCEPT !.cols = [i \in DOMAIN @ |-> strip(@[i])]]]

\* CSVReader.read_csv_chunks
read_csv_chunks(file) == CsvChunks(file)

\* per file, what each path hands to the store for each chunk (these do not
\* depend on the store)
BootstrapMatched ==
  [f \in DOMAIN Files |->
     LET chunks == iter_csv_chunks(Files[f])
     IN [c \in DOMAIN chunks |->
           LET matched == filter_african_rows(chunks[c])
           IN IF matched.rows = <<>> THEN matched ELSE ensure_notice_id_column(matched)]]

DailyMatched ==
  [f \in DOMAIN Files |->
     LET chunks == iter_csv_chunks(Files[f])
     IN [c \in DOMAIN chunks |->
           LET matched == filter_african_rows_daily(chunks[c])
           IN IF matched.rows = <<>> THEN matched ELSE ensure_notice_id_column(matched)]]

SamProcessed ==
  [f \in DOMAIN Files |->
     LET chunks == read_csv_chunks(Files[f])
     IN [c \in DOMAIN chunks |-> process_chunk(chunks[c])]]

\* bootstrap_historical.py ingest_file_into_db: the loop over the chunks from i on
RECURSIVE ingest_file_into_db(_, _, _)
ingest_file_into_db(st, matched, i) ==
  IF i > Len(matched) THEN [store |-> st, entries |-> <<>>]
  ELSE IF matched[i].rows = <<>> THEN ingest_file_into_db(st, matched, i + 1)
  ELSE LET r == insert_new_rows_chunk(st, matched[i])
           rest == ingest_file_into_db(r.store, matched, i + 1)
       IN [store |-> rest.store, entries |-> r.entries \o rest.entries]

\* download_and_update.py main: the loop over the chunks from i on
RECURSIVE main(_, _, _)
main(st, matched, i) ==
  IF i > Len(matched) THEN [store |-> st, entries |-> <<>>]
  ELSE IF matched[i].rows = <<>> THEN main(st, matched, i + 1)
  ELSE LET r == insert_new_rows_chunk_daily(st, matched[i])
           rest == main(r.store, matched, i + 1)
       IN [store |-> rest.store, entries |-> r.entries \o rest.entries]

\* the data flow through sam_utils.py: each chunk through process_chunk, then
\* through insert_or_update_batch
RECURSIVE upsert_file(_, _, _)
upsert_file(st, processed, i) ==
  IF i > Len(processed) THEN [store |-> st, entries |-> <<>>]
  ELSE LET r == insert_or_update_batch(st, processed[i])
           rest == upsert_file(r.store, processed, i + 1)
       IN [store |-> rest.store, entries |-> r.entries \o rest.entries]

(***************************************************************************)
(* The system: the table, and the log of the ingestion runs so far.  A run *)
(* of the log names its write path and its file, keeps the table before    *)
(* and after it, and lists, for every row offered to the table, the row's  *)
(* position in the file, its identity, its outcome and the table before    *)
(* and after the row.  Beside them, call is the latest application of one  *)
(* of the pure functions of the pipeline to an input of its own (none      *)
(* while the ingestion runs are explored), and started tells whether a     *)
(* SAMDataSystem has been constructed.  At first there is no database      *)
(* file: the first start-up or the first run of a script creates it        *)
(* (ensure_db of the scripts, CREATE TABLE IF NOT EXISTS).  run is the     *)
(* process of a script followed step by step through its downloads: which  *)
(* script, where it is, the fiscal years it has still to fetch, the base   *)
(* URL it is at, and what it has reported so far.  writers are two          *)
(* connections to the database file, each followed statement by statement  *)
(* through one batch, and ing is the ingestion of one file followed chunk   *)
(* by chunk; for them store is what is committed.                          *)
(***************************************************************************)
VARIABLES store, log, call, started, run, writers, ing

vars == <<store, log, call, started, run, writers, ing>>

\* a connection that has not been opened
NoWriter ==
  [status |-> "idle", path |-> "none", f |-> 0, row |-> 1, sel |-> "none",
   df |-> EmptyFrame, txn |-> FALSE, view |-> <<>>, before |-> <<>>, entries |-> <<>>,
   cause |-> "none"]

\* no file opened
NoFile ==
  [phase |-> "idle", path |-> "none", f |-> 0, chunks |-> <<>>, trial |-> 0, pos |-> 0,
   i |-> 0, conn |-> <<>>, steps |-> <<>>]

\* config.db_path.exists()
db_path_exists == started \/ log # <<>>

\* DROP TABLE IF EXISTS opportunities; CREATE TABLE opportunities
initialize_database == <<>>

\* no function applied yet
NoCall == [fn |-> "none"]

Init ==
  /\ store = <<>>
  /\ log = <<>>
  /\ call = NoCall
  /\ started = FALSE
  /\ run = [script |-> "none", pc |-> "idle", years |-> <<>>, base |-> 1, events |-> <<>>]
  /\ writers = [w \in {1, 2} |-> NoWriter]
  /\ ing = NoFile

\* what a run r of a write path over file f leaves: the table and the log
Ingested(path, f, r) ==
  /\ store' = r.store
  /\ log' = Append(log, [path |-> path, file |-> f, entries |-> r.entries,
                          sb |-> store, sa |-> r.store])

Run(path, f, r) ==
  /\ Ingested(path, f, r)
  /\ UNCHANGED <<call, started, run, writers, ing>>

\* SAMDataSystem.__init__ with the object that starts always initialising
SystemStartAlwaysInitialize ==
  /\ started' = TRUE
  /\ store' = initialize_database
  /\ UNCHANGED <<log, call, run, writers, ing>>

\* SAMDataSystem.__init__: the database is initialised if its file is not there
SystemStart ==
  /\ started' = TRUE
  /\ store' = IF ~db_path_exists THEN initialize_database ELSE store
  /\ UNCHANGED <<log, call, run, writers, ing>>

\* a run of the sam_utils.py pipeline on file f, by a system that has started
SamIngest(f) ==
  /\ started
  /\ Len(log) < MaxOps
  /\ Run("sam", f, upsert_file(store, SamProcessed[f], 1))

\* a run of bootstrap_historical.py ingest_file_into_db on file f
BootstrapIngest(f) ==
  /\ Len(log) < MaxOps
  /\ Run("bootstrap", f, ingest_file_into_db(store, BootstrapMatched[f], 1))

\* a run of download_and_update.py main on file f
DailyIngest(f) ==
  /\ Len(log) < MaxOps
  /\ Run("daily", f, main(store, DailyMatched[f], 1))

Next ==
  \/ SystemStart
  \/ \E f \in DOMAIN Files :
       \/ SamIngest(f)
       \/ BootstrapIngest(f)
       \/ DailyIngest(f)

Spec == Init /\ [][Next]_vars

(***************************************************************************)
(* The pure functions on their own.  The posted dates offered to           *)
(* normalize_posted_date are the layouts of the feed with fields in and    *)
(* out of range: the ISO date, bare, padded with blanks, followed by a     *)
(* time of day after a blank or after "T", or followed by other text; the  *)
(* slash date; and empty, blank, missing and unreadable values.  The       *)
(* values offered to the classifiers are the codes, the names and the      *)
(* alternative names of their tables in several letter cases, every text   *)
(* of three capital letters, the missing-value tokens, and free text with  *)
(* and without a name of the tables in it.  A behaviour makes one call.    *)
(***************************************************************************)
DateYears == {<<"2", "0", "2", "3">>, <<"2", "0", "2", "4">>}

DateMonths == {<<"0", "0">>, <<"0", "2">>, <<"1", "2">>, <<"1", "3">>}

DateDays == {<<"0", "0">>, <<"0", "1">>, <<"2", "9">>, <<"3", "0">>, <<"3", "1">>, <<"4", "5">>}

TimeOfDay == <<"1", "2", ":", "0", "0", ":", "0", "0">>

IsoText(y, m, d) == y \o <<"-">> \o m \o <<"-">> \o d

DateLayouts(y, m, d) ==
  { IsoText(y, m, d),
    <<" ">> \o IsoText(y, m, d) \o <<" ">>,
    IsoText(y, m, d) \o <<" ">> \o TimeOfDay,
    IsoText(y, m, d) \o <<"T">> \o TimeOfDay,
    IsoText(y, m, d) \o <<" ", "n", "o", "o", "n">>,
    m \o <<"/">> \o d \o <<"/">> \o y }

DateInputs ==
  UNION {DateLayouts(y, m, d) : <<y, m, d>> \in DateYears \X DateMonths \X DateDays}
    \cup {<<>>, <<" ", " ">>, PyNaN, PyNone,
          <<"g", "a", "r", "b", "a", "g", "e">>}

\* db.normalize_posted_date(date_str)
NormalizeDate(date_str) ==
  /\ call = NoCall
  /\ call' = [fn |-> "normalize_posted_date", arg |-> date_str,
              result |-> normalize_posted_date(date_str)]
  /\ UNCHANGED <<store, log, started, run, writers, ing>>

\* the letter cases a text is offered in
Capitalized(s) == IF s = <<>> THEN s ELSE <<upper_char(s[1])>> \o lower(Tail(s))

Alternating(s) == [i \in 1..Len(s) |-> IF i % 2 = 1 THEN lower_char(s[i]) ELSE upper_char(s[i])]

Casings(s) == {upper(s), lower(s), Capitalized(s), Alternating(s)}

\* every text of three capital letters
ThreeLetterCodes == {<<a, b, c>> : a \in AsciiUpper, b \in AsciiUpper, c \in AsciiUpper}

MissingTokens ==
  {<<>>, <<" ">>, PyNaN, PyNone,
   <<"n", "a", "n">>, <<"N", "o", "n", "e">>, <<"N", "O", "N", "E">>, <<"N", "U", "L", "L">>,
   <<"n", "u", "l", "l">>, <<"N", "/", "A">>, <<"n", "/", "a">>,
   <<"U", "N", "K", "N", "O", "W", "N">>, <<"U", "n", "k", "n", "o", "w", "n">>}

FreeTexts ==
  {<<"V", "i", "e", "t", "n", "a", "m">>,
   <<"P", "a", "p", "u", "a", " ", "N", "e", "w", " ", "G", "u", "i", "n", "e", "a">>,
   <<"U", "n", "i", "t", "e", "d", " ", "S", "t", "a", "t", "e", "s">>,
   <<"K", "E", "N", "Y", "A", " ", "(", "K", "E", "N", ")">>,
   <<"R", "o", "m", "e", " ", "(", "I", "T", "A", ")">>,
   <<"N", "a", "i", "r", "o", "b", "i", ",", " ", "K", "e", "n", "y", "a">>,
   <<"K", "e", "n", "y">>,
   <<"A", "l", "g", "e", "r">>,
   <<"F", "r", "a", "n", "c", "e">>,
   <<"I", "T">>}

RegionInputs ==
  UNION {Casings(c) : c \in ThreeLetterCodes \cap iso3_codes}
    \cup UNION {Casings(k) : k \in Keys(AFRICAN_COUNTRIES)}
    \cup UNION {Casings(k) : k \in Keys(ALTERNATIVE_NAMES)}
    \cup ThreeLetterCodes
    \cup MissingTokens
    \cup FreeTexts

ScriptRegionInputs ==
  UNION {Casings(c) : c \in AFRICA_ISO3}
    \cup UNION {Casings(k) : k \in Keys(AFRICA_MAPPINGS)}
    \cup MissingTokens
    \cup FreeTexts

\* country_manager.is_african_country(value)
IsAfricanCountry(value) ==
  /\ call = NoCall
  /\ call' = [fn |-> "is_african_country", arg |-> value,
              result |-> is_african_country(value)]
  /\ UNCHANGED <<store, log, started, run, writers, ing>>

\* row_matches(row) of bootstrap_historical.py on a row with the two region cells
RowMatches(pop_value, cc_value) ==
  /\ call = NoCall
  /\ call' = [fn |-> "row_matches", arg |-> <<pop_value, cc_value>>,
              result |-> row_matches(pop_value, cc_value)]
  /\ UNCHANGED <<store, log, started, run, writers, ing>>

(***************************************************************************)
(* robust_get.  The server's answers to the successive requests are given  *)
(* as a sequence of status codes, 0 standing for a request that raised     *)
(* (no connection, timeout).  The result tells whether the call returned   *)
(* or raised, after how many attempts, the status of the last answer, and  *)
(* the delays slept.                                                       *)
(***************************************************************************)
\* an attempt that takes any answer for a success
attempt_error_without_status_check(status) == status = 0

\* requests.get raised, or status_code >= 500, or raise_for_status() raised
attempt_error(status) == status = 0 \/ status >= 500 \/ status >= 400

\* bootstrap_historical.py robust_get: the loop from attempt on; the raise
\* follows the loop
RECURSIVE robust_get(_, _, _, _, _)
robust_get(responses, attempt, max_retries, backoff, sleeps) ==
  IF attempt > max_retries
  THEN [outcome |-> "raise", attempts |-> attempt - 1,
        status |-> responses[attempt - 1], sleeps |-> sleeps]
  ELSE IF ~attempt_error(responses[attempt])
  THEN [outcome |-> "return", attempts |-> attempt,
        status |-> responses[attempt], sleeps |-> sleeps]
  ELSE robust_get(responses, attempt + 1, max_retries, backoff,
                  IF attempt < max_retries THEN Append(sleeps, backoff * attempt)
                  ELSE sleeps)

\* download_and_update.py robust_get: the raise is in the loop, at the last attempt
RECURSIVE robust_get_daily(_, _, _, _, _)
robust_get_daily(responses, attempt, max_retries, backoff, sleeps) ==
  IF attempt > max_retries
  THEN [outcome |-> "return", attempts |-> attempt - 1, status |-> 0, sleeps |-> sleeps]
  ELSE IF ~attempt_error(responses[attempt])
  THEN [outcome |-> "return", attempts |-> attempt,
        status |-> responses[attempt], sleeps |-> sleeps]
  ELSE IF attempt < max_retries
  THEN robust_get_daily(responses, attempt + 1, max_retries, backoff,
                        Append(sleeps, backoff * attempt))
  ELSE [outcome |-> "raise", attempts |-> attempt,
        status |-> responses[attempt], sleeps |-> sleeps]

\* a call of robust_get of one of the scripts
RobustGet(script, responses, max_retries, backoff) ==
  /\ call = NoCall
  /\ call' = [fn |-> "robust_get", arg |-> <<script, responses, max_retries, backoff>>,
              result |-> IF script = "bootstrap"
                         THEN robust_get(responses, 1, max_retries, backoff, <<>>)
                         ELSE robust_get_daily(responses, 1, max_retries, backoff, <<>>)]
  /\ UNCHANGED <<store, log, started, run, writers, ing>>

\* CountryManager.standardize_country on a value, and again on what it returned
StandardizeCountry(value) ==
  /\ call = NoCall
  /\ call' = [fn |-> "standardize_country", arg |-> value,
              result |-> <<standardize_country(value),
                           standardize_country(standardize_country(value))>>]
  /\ UNCHANGED <<store, log, started, run, writers, ing>>

\* standardize_country_code of download_and_update.py on a value, and again on
\* what it returned
StandardizeCountryCode(value) ==
  /\ call = NoCall
  /\ call' = [fn |-> "standardize_country_code", arg |-> value,
              result |-> <<standardize_country_code_daily(value),
                           standardize_country_code_daily(standardize_country_code_daily(value))>>]
  /\ UNCHANGED <<store, log, started, run, writers, ing>>

PureNext ==
  \/ call = NoCall /\ \E date_str \in DateInputs : NormalizeDate(date_str)
  \/ call = NoCall /\ \E value \in RegionInputs : IsAfricanCountry(value)
  \/ call = NoCall /\ \E value \in ScriptRegionInputs : RowMatches(value, PyNaN)
  \/ call = NoCall /\ \E value \in ScriptRegionInputs : RowMatches(PyNaN, value)
  \/ call = NoCall /\ \E value \in iso3_codes : StandardizeCountry(value)
  \/ call = NoCall /\ \E value \in AFRICA_ISO3 : StandardizeCountryCode(value)
  \/ call = NoCall /\ \E script \in {"bootstrap", "daily"}, max_retries \in 1..3, backoff \in {1, 3} :
       \E responses \in [1..3 -> {0, 200, 302, 404, 500, 503}] :
         RobustGet(script, responses, max_retries, backoff)

PureSpec == Init /\ [][PureNext]_vars

(***************************************************************************)
(* The scripts as processes.  A fetch, a probe and the decoding of a file  *)
(* succeed or fail as the network and the file decide; a run of            *)
(* bootstrap_historical.py is followed base URL by base URL through the    *)
(* fiscal years of its range and then through the current extract, a run   *)
(* of download_and_update.py through its one file.  START_YEAR and         *)
(* END_YEAR are set to ranges of at most three of the available years.  A  *)
(* failed ingestion leaves the table as it was (the files have at most two *)
(* chunks, so no commit comes before the failure).                         *)
(***************************************************************************)
\* bootstrap_historical.py backfill_archives: available_years
available_years == <<1970, 1980>> \o [i \in 1..28 |-> 1997 + i] \o <<2030>>

ARCHIVE_BASES == <<"s3.amazonaws.com/falextracts", "falextracts.s3.amazonaws.com">>

\* START_YEAR, END_YEAR of the environment
YearRanges == {<<1970, 1998>>, <<1981, 1997>>, <<1999, 1999>>, <<2025, 2030>>}

\* the file behind a URL: the archive of a fiscal year, or the current extract (year 0)
SourceFile(year) == (year % Len(Files)) + 1

\* the loop body of backfill_archives with a break that is not taken
backfill_step_without_break(r, outcome) ==
  LET ev == [year |-> Head(r.years), base |-> r.base, outcome |-> outcome]
  IN IF r.base < Len(ARCHIVE_BASES)
     THEN [r EXCEPT !.events = Append(@, ev), !.base = @ + 1]
     ELSE [r EXCEPT !.events = Append(@, ev), !.years = Tail(@), !.base = 1]

\* the loop body of backfill_archives for the year and the base URL the run
\* is at: the report of the outcome, then the next base, or, after the last
\* base, "skipping" and the next year; after an ingestion, break
backfill_step(r, outcome) ==
  LET ev == [year |-> Head(r.years), base |-> r.base, outcome |-> outcome]
      skipping == [year |-> Head(r.years), base |-> 0, outcome |-> "skipped"]
  IN IF outcome = "ingested"
     THEN [r EXCEPT !.events = Append(@, ev), !.years = Tail(@), !.base = 1]
     ELSE IF r.base < Len(ARCHIVE_BASES)
     THEN [r EXCEPT !.events = Append(@, ev), !.base = @ + 1]
     ELSE [r EXCEPT !.events = Append(@, ev) \o <<skipping>>, !.years = Tail(@), !.base = 1]

\* bootstrap_historical.py main up to the loop of backfill_archives
BootstrapMain(range) ==
  LET InRange(y) == y >= range[1] /\ y <= range[2]
  IN /\ run.script = "none"
     /\ run' = [script |-> "bootstrap", pc |-> "backfill",
                years |-> SelectSeq(available_years, InRange), base |-> 1,
                events |-> <<[year |-> range[1], base |-> 0, outcome |-> "start"],
                             [year |-> range[2], base |-> 0, outcome |-> "end"]>>]
     /\ UNCHANGED <<store, log, call, started, writers, ing>>

\* one base URL tried for one year: exists_fast, download_to, ingest_file_into_db
BackfillTryBase(outcome) ==
  /\ run.script = "bootstrap"
  /\ run.pc = "backfill"
  /\ run.years # <<>>
  /\ run' = backfill_step(run, outcome)
  /\ IF outcome = "ingested"
     THEN Ingested("bootstrap", SourceFile(Head(run.years)),
                   ingest_file_into_db(store, BootstrapMatched[SourceFile(Head(run.years))], 1))
     ELSE UNCHANGED <<store, log>>
  /\ UNCHANGED <<call, started, writers, ing>>

\* "Archive backfill complete."
BackfillComplete ==
  /\ run.script = "bootstrap"
  /\ run.pc = "backfill"
  /\ run.years = <<>>
  /\ run' = [run EXCEPT !.pc = "current"]
  /\ UNCHANGED <<store, log, call, started, writers, ing>>

\* bootstrap_historical.py ingest_current_full: the primary URL, the fallback
\* URL, and the ingestion; an exception of the fallback or of the ingestion
\* is caught nowhere
IngestCurrentFull(outcome) ==
  /\ run.script = "bootstrap"
  /\ run.pc = "current"
  /\ run' = [run EXCEPT !.pc = IF outcome = "ingested" THEN "done" ELSE "crashed",
                        !.events = Append(@, [year |-> 0, base |-> 0, outcome |-> outcome])]
  /\ IF outcome = "ingested"
     THEN Ingested("bootstrap", SourceFile(0),
                   ingest_file_into_db(store, BootstrapMatched[SourceFile(0)], 1))
     ELSE UNCHANGED <<store, log>>
  /\ UNCHANGED <<call, started, writers, ing>>

\* download_and_update.py main: sys.exit(1) when the download fails, an
\* uncaught exception when the file cannot be decoded
DailyMain(outcome) ==
  /\ run.script = "none"
  /\ run' = [run EXCEPT !.script = "daily",
                        !.pc = CASE outcome = "ingested" -> "done"
                                 [] outcome = "download_failed" -> "exited"
                                 [] OTHER -> "crashed",
                        !.events = Append(@, [year |-> 0, base |-> 0, outcome |-> outcome])]
  /\ IF outcome = "ingested"
     THEN Ingested("daily", SourceFile(0), main(store, DailyMatched[SourceFile(0)], 1))
     ELSE UNCHANGED <<store, log>>
  /\ UNCHANGED <<call, started, writers, ing>>

RunNext ==
  \/ \E range \in YearRanges : BootstrapMain(range)
  \/ \E outcome \in {"absent", "download_failed", "ingest_failed", "ingested"} :
       BackfillTryBase(outcome)
  \/ BackfillComplete
  \/ \E outcome \in {"download_failed", "ingest_failed", "ingested"} :
       IngestCurrentFull(outcome)
  \/ \E outcome \in {"download_failed", "ingest_failed", "ingested"} :
       DailyMain(outcome)

RunSpec == Init /\ [][RunNext]_vars

(***************************************************************************)
(* Two connections on one database file.  A connection writes the first    *)
(* chunk of a file, either through DatabaseManager.insert_or_update_batch  *)
(* or through insert_new_rows_chunk under ingest_file_into_db of           *)
(* bootstrap_historical.py, one SQL statement at a time.  store is the     *)
(* committed table.  The first INSERT or UPDATE of a connection opens its  *)
(* transaction (sqlite3 begins one before a data-changing statement);      *)
(* from then on the connection reads and writes its own view, which        *)
(* commit makes the table and rollback or close discards.  SQLite lets one *)
(* connection write at a time: while another connection has a transaction  *)
(* open a data-changing statement waits, and fails with "database is       *)
(* locked" when the wait outlasts the timeout of the connection.  Any      *)
(* statement may also fail for a reason of its own (the disk, the file).   *)
(* The batches are the first chunks of the files 1, 4 and 5.               *)
(***************************************************************************)
\* the batch of a connection, as its path prepares it
BatchOf(path, f) ==
  IF path = "sam" THEN SamProcessed[f][1] ELSE BootstrapMatched[f][1]

\* another connection has a transaction open
Locked(w) == \E v \in DOMAIN writers : v # w /\ writers[v].txn

\* the table the statements of a connection read
ViewOf(wr) == IF wr.txn THEN wr.view ELSE store

\* the report of a row; err tells how its statement failed, if it did
Reported(wr, nid, outcome, err) ==
  [wr EXCEPT !.entries = Append(@, [idx |-> wr.df.index[wr.row], nid |-> nid,
                                    outcome |-> outcome, err |-> err]),
             !.row = @ + 1, !.sel = "none"]

\* an exception leaves the call
Raised(wr, cause) ==
  [wr EXCEPT !.status = "raised", !.cause = cause, !.txn = FALSE, !.view = <<>>]

\* a context manager that commits on every exit
get_connection_commit_always(wr, raised) == ViewOf(wr)

\* the committed table when a connection is left: get_connection commits
\* after the block and rolls back in "except Exception"; ingest_file_into_db
\* commits after the loop, and its finally closes the connection
get_connection(wr, raised) == IF raised THEN store ELSE ViewOf(wr)

\* an INSERT OR IGNORE counted as inserted whatever its rowcount
inserted_or_skipped_without_rowcount(ok) == "inserted"

\* if cur.rowcount > 0: inserted += 1  else: skipped += 1
inserted_or_skipped(ok) == IF ok THEN "inserted" ELSE "skipped"

\* get_connection of insert_or_update_batch, or sqlite3.connect of ingest_file_into_db
OpenBatch(w, path, f) ==
  /\ writers[w].status = "idle"
  /\ \E df \in {BatchOf(path, f)} :
       writers' = [writers EXCEPT ![w] =
         [NoWriter EXCEPT !.path = path, !.f = f, !.df = df, !.before = store,
                          \* if df.empty: return 0, 0, 0
                          !.status = IF path = "sam" /\ df.rows = <<>>
                                     THEN "returned" ELSE "running"]]
  /\ UNCHANGED <<store, log, call, started, run, ing>>

\* insert_or_update_batch, a row up to its SELECT and the comparison of dates
Select(w, fault) ==
  /\ writers[w].status = "running"
  /\ writers[w].path = "sam"
  /\ writers[w].sel = "none"
  /\ writers[w].row <= Len(writers[w].df.rows)
  /\ \E wr \in {writers[w]} :
     \E notice_id \in {strip(str(RowGet(wr.df.cols, wr.df.rows[wr.row], cNoticeId, <<>>)))} :
       IF invalid_notice_id(notice_id)
       THEN /\ fault = "none"
            /\ writers' = [writers EXCEPT ![w] = Reported(wr, notice_id, "skipped", "none")]
            /\ store' = store
       ELSE IF fault # "none"
       THEN /\ writers' = [writers EXCEPT ![w] = Raised(wr, "select")]
            /\ store' = get_connection(wr, TRUE)
       ELSE \E outcome \in {upsert_row(ViewOf(wr), wr.df.cols, wr.df.rows[wr.row]).outcome} :
              /\ writers' = [writers EXCEPT ![w] =
                              IF outcome = "skipped"
                              THEN Reported(wr, notice_id, "skipped", "none")
                              ELSE [wr EXCEPT !.sel = outcome]]
              /\ store' = store
  /\ UNCHANGED <<log, call, started, run, ing>>

\* insert_or_update_batch, the INSERT OR IGNORE or the UPDATE of the row, both
\* under "except Exception: skipped += 1"
Write(w, fault) ==
  /\ writers[w].status = "running"
  /\ writers[w].sel # "none"
  /\ Locked(w) <=> fault = "locked"
  /\ \E wr \in {writers[w]}, st \in {ViewOf(writers[w])} :
     \E notice_id \in {strip(str(RowGet(wr.df.cols, wr.df.rows[wr.row], cNoticeId, <<>>)))} :
       IF fault # "none"
       THEN writers' = [writers EXCEPT ![w] = Reported(wr, notice_id, "skipped", fault)]
       ELSE IF wr.sel = "inserted"
       THEN \E q \in {SqlInsert(st, InsertedRow(notice_id, wr.df.cols, wr.df.rows[wr.row]))} :
              writers' = [writers EXCEPT ![w] =
                [Reported(wr, notice_id, inserted_or_skipped(q.ok), "none")
                   EXCEPT !.txn = TRUE, !.view = q.store]]
       ELSE writers' = [writers EXCEPT ![w] =
              [Reported(wr, notice_id, "updated", "none")
                 EXCEPT !.txn = TRUE,
                        !.view = IF HasId(st, notice_id)
                                 THEN [st EXCEPT ![RowOf(st, notice_id)] =
                                         UpdatedRow(@, wr.df.cols, wr.df.rows[wr.row],
                                           normalize_posted_date(
                                             RowGet(wr.df.cols, wr.df.rows[wr.row], cPostedDate, <<>>)))]
                                 ELSE st]]
  /\ UNCHANGED <<store, log, call, started, run, ing>>

\* insert_new_rows_chunk, one row: INSERT under "except sqlite3.IntegrityError"
ScriptInsert(w, fault) ==
  /\ writers[w].status = "running"
  /\ writers[w].path = "bootstrap"
  /\ writers[w].row <= Len(writers[w].df.rows)
  /\ \E wr \in {writers[w]} :
     \E r \in {insert_new_rows_chunk(ViewOf(wr), [cols |-> wr.df.cols,
                                                    rows |-> <<wr.df.rows[wr.row]>>,
                                                    index |-> <<wr.df.index[wr.row]>>])} :
       IF r.entries[1].outcome = "no_id"
       THEN /\ fault = "none"
            /\ writers' = [writers EXCEPT ![w] = Reported(wr, r.entries[1].nid, "no_id", "none")]
       ELSE /\ Locked(w) <=> fault = "locked"
            /\ writers' = [writers EXCEPT ![w] =
                 IF fault # "none" THEN Raised(wr, fault)
                 ELSE [Reported(wr, r.entries[1].nid, r.entries[1].outcome, "none")
                         EXCEPT !.txn = TRUE, !.view = r.store]]
  /\ store' = IF fault # "none" THEN get_connection(writers[w], TRUE) ELSE store
  /\ UNCHANGED <<log, call, started, run, ing>>

\* conn.commit() after the last row
Commit(w, fault) ==
  /\ writers[w].status = "running"
  /\ writers[w].sel = "none"
  /\ writers[w].row > Len(writers[w].df.rows)
  /\ fault # "none" => writers[w].txn
  /\ store' = get_connection(writers[w], fault # "none")
  /\ writers' = [writers EXCEPT ![w] =
                   IF fault = "none" THEN [@ EXCEPT !.status = "returned", !.txn = FALSE]
                   ELSE Raised(@, "commit")]
  /\ UNCHANGED <<log, call, started, run, ing>>

WriterNext ==
  \/ \E w \in {1, 2}, path \in {"sam", "bootstrap"}, f \in {1, 4, 5} : OpenBatch(w, path, f)
  \/ \E w \in {1, 2}, fault \in {"none", "failed"} : Select(w, fault)
  \/ \E w \in {1, 2}, fault \in {"none", "failed", "locked"} : Write(w, fault)
  \/ \E w \in {1, 2}, fault \in {"none", "failed", "locked"} : ScriptInsert(w, fault)
  \/ \E w \in {1, 2}, fault \in {"none", "failed"} : Commit(w, fault)

WriterSpec == Init /\ [][WriterNext]_vars

(***************************************************************************)
(* The ingestion of one file, chunk by chunk.  The reader tries its        *)
(* encodings in order and hands over the chunks of a trial as it decodes   *)
(* them; when a trial raises, the next one starts the file again, and      *)
(* when the last one raises the reader raises.  Whether and where a trial  *)
(* raises is for the file to decide.  enumerate counts the chunks handed   *)
(* over, whatever the trial (i); pos is the place in the file.  conn is    *)
(* the table as the connection of the run has written it, store what is    *)
(* committed: ingest_file_into_db commits after every second chunk handed  *)
(* over that matched a row, and after the loop; main of                    *)
(* download_and_update.py commits after the loop only;                     *)
(* insert_or_update_batch, where a caller of read_csv_chunks hands it the   *)
(* chunks, commits each chunk before it returns.  The phases are           *)
(* opened (the reader starts, or starts again, at the head of the file),   *)
(* streaming (a chunk has been read and written to the connection),        *)
(* committing (a commit has been made), done and failed.                   *)
(***************************************************************************)
\* iter_csv_chunks: enc_trials; CSVReader.read_csv_chunks: encodings
enc_trials(path) ==
  IF path = "sam" THEN <<"utf-8-sig", "utf-8", "latin-1", "cp1252">>
  ELSE <<"utf-8", "utf-8-sig", "cp1252", "latin-1">>

\* sqlite3.connect(DB_PATH), and the first pd.read_csv; chunks are the
\* chunks of the file as the path prepares them for the table
OpenFile(path, f) ==
  /\ ing.phase = "idle"
  /\ \E chunks \in {CASE path = "sam" -> SamProcessed[f]
                      [] path = "bootstrap" -> BootstrapMatched[f]
                      [] OTHER -> DailyMatched[f]} :
       ing' = [NoFile EXCEPT !.phase = "opened", !.path = path, !.f = f, !.chunks = chunks,
                             !.trial = 1, !.conn = store]
  /\ UNCHANGED <<store, log, call, started, run, writers>>

\* the body of the loop over the chunks, for the next chunk of the trial:
\* the rows of the chunk written through the connection
ReadChunk ==
  /\ ing.phase \in {"opened", "streaming", "committing"}
  /\ ing.pos < Len(ing.chunks)
  /\ ing.path = "sam" /\ ing.phase = "streaming" => ~ing.steps[Len(ing.steps)].matched
  /\ \E df \in {ing.chunks[ing.pos + 1]} :
     \E st \in {CASE df.rows = <<>> -> ing.conn
                  [] ing.path = "sam" /\ df.rows # <<>> -> insert_or_update_batch(ing.conn, df).store
                  [] ing.path = "bootstrap" /\ df.rows # <<>> -> insert_new_rows_chunk(ing.conn, df).store
                  [] OTHER -> insert_new_rows_chunk_daily(ing.conn, df).store} :
       ing' = [ing EXCEPT !.phase = "streaming", !.pos = @ + 1, !.i = @ + 1, !.conn = st,
                          !.steps = Append(@, [trial |-> ing.trial, pos |-> ing.pos + 1,
                                               matched |-> df.rows # <<>>])]
  /\ UNCHANGED <<store, log, call, started, run, writers>>

\* conn.commit() in the loop: "if i % 2 == 0" of ingest_file_into_db, reached
\* only by a chunk that matched a row; the commit of insert_or_update_batch
CommitChunk ==
  /\ ing.phase = "streaming"
  /\ ing.steps[Len(ing.steps)].matched
  /\ ing.path = "sam" \/ (ing.path = "bootstrap" /\ ing.i % 2 = 0)
  /\ store' = ing.conn
  /\ ing' = [ing EXCEPT !.phase = "committing"]
  /\ UNCHANGED <<log, call, started, run, writers>>

\* the reader raises while the next chunk is read (the next encoding starts
\* the file again, or the reader gives up), or the loop body raises while
\* the chunk is written; the finally closes the connection
FailChunk(where) ==
  /\ ing.phase \in {"opened", "streaming", "committing"}
  /\ ing.path = "sam" /\ ing.phase = "streaming" => ~ing.steps[Len(ing.steps)].matched
  /\ where = "write" => ing.pos < Len(ing.chunks)
  /\ ing' = IF where = "read" /\ ing.trial < Len(enc_trials(ing.path))
            THEN [ing EXCEPT !.phase = "opened", !.trial = @ + 1, !.pos = 0]
            ELSE [ing EXCEPT !.phase = "failed"]
  /\ UNCHANGED <<store, log, call, started, run, writers>>

\* the reader is exhausted: conn.commit() after the loop, and the report
Finish ==
  /\ ing.phase \in {"opened", "streaming", "committing"}
  /\ ing.pos = Len(ing.chunks)
  /\ ing.path = "sam" /\ ing.phase = "streaming" => ~ing.steps[Len(ing.steps)].matched
  /\ store' = ing.conn
  /\ ing' = [ing EXCEPT !.phase = "done"]
  /\ UNCHANGED <<log, call, started, run, writers>>

StreamNext ==
  \/ \E path \in {"sam", "bootstrap", "daily"}, f \in {1, 7, 9} : OpenFile(path, f)
  \/ ReadChunk
  \/ CommitChunk
  \/ \E where \in {"read", "write"} : FailChunk(where)
  \/ Finish

StreamSpec == Init /\ [][StreamNext]_vars

(***************************************************************************)
(* Properties.  They are stated over the table and the log; the rows a     *)
(* run offered to the table are its entries, and an entry is named by the  *)
(* pair of its run and its place among the run's entries.                  *)
(***************************************************************************)
AllEntries == UNION {{<<k, i>> : i \in DOMAIN log[k].entries} : k \in DOMAIN log}

EntryAt(p) == log[p[1]].entries[p[2]]

PathOf(p) == log[p[1]].path

\* the header of the file an entry's row was read from, and the row as read
RawHeader(p) == Files[log[p[1]].file].cols

RawRecord(p) == Files[log[p[1]].file].rows[EntryAt(p).idx]

RawCell(p, c) == RowGet(RawHeader(p), RawRecord(p), c, <<>>)

\* the entry p comes before the entry q
Before(p, q) == p[1] < q[1] \/ (p[1] = q[1] /\ p[2] < q[2])

\* the outcomes that report a row as not written
SkipOutcomes == {"skipped", "duplicate", "no_id"}

\* the identity of the entry was stored when its row was offered
Existing(p) == HasId(EntryAt(p).sb, EntryAt(p).nid)

\* posted dates as the pipeline reads them: of the incoming row, and of the row
\* stored under an identity
IncomingDate(p) == normalize_posted_date(RawCell(p, cPostedDate))

StoredDate(st, nid) == normalize_posted_date(st[RowOf(st, nid)][cPostedDate])

\* a normalised date YYYY-MM-DD as the number YYYYMMDD
DateKey(d) == ToNumber(SubSeq(d, 1, 4) \o SubSeq(d, 6, 7) \o SubSeq(d, 9, 10))

\* the date a is strictly more recent than the date b; no date is more recent
\* than, or less recent than, a null one
StrictlyLater(a, b) == a # PyNone /\ b # PyNone /\ DateKey(a) > DateKey(b)

\* C1: after any sequence of ingestion runs from the empty table, no two
\* stored rows have the same identity.
C1_UniqueIdentity ==
  \A i, j \in DOMAIN store : store[i][cNoticeId] = store[j][cNoticeId] => i = j

\* C1 happens: the upsert path and a script path were each offered a row whose
\* identity was stored already
C1_Witness ==
  /\ \E p \in AllEntries : Existing(p) /\ PathOf(p) = "sam"
  /\ \E p \in AllEntries : Existing(p) /\ PathOf(p) # "sam"

EntriesOf(nid) == {p \in AllEntries : EntryAt(p).nid = nid}

\* C3: when exactly two records of one identity, with posted dates D1 < D2, have
\* been ingested, in either order, the stored posted date of the identity is
\* D2; and when the D2 record came first, the D1 record was reported as not
\* written.
C3_DateMonotonicMerge ==
  \A p, q \in AllEntries :
    LET nid == EntryAt(p).nid
        dp == IncomingDate(p)
        dq == IncomingDate(q)
    IN (/\ Before(p, q)
        /\ EntryAt(q).nid = nid
        /\ EntriesOf(nid) = {p, q}
        /\ EntryAt(p).outcome = "inserted"
        /\ dp # PyNone /\ dq # PyNone
        /\ DateKey(dp) # DateKey(dq))
       => /\ HasId(store, nid)
          /\ StoredDate(store, nid) = (IF DateKey(dp) < DateKey(dq) THEN dq ELSE dp)
          /\ (DateKey(dq) < DateKey(dp) => EntryAt(q).outcome \in SkipOutcomes)

\* C4: a row reported as not written leaves every field of every stored row as
\* it was; a row with a null posted date whose identity is stored already is
\* always reported so.
C4_SkippedChangesNothing ==
  \A p \in AllEntries :
    LET e == EntryAt(p)
    IN /\ e.outcome \in SkipOutcomes => e.sa = e.sb
       /\ (Existing(p) /\ IncomingDate(p) = PyNone) =>
            (e.outcome \in SkipOutcomes /\ e.sa = e.sb)

\* C4 happens: the upsert path was offered a row with a null posted date whose
\* identity was stored with a date, and a row with an older date
C4_Witness ==
  /\ \E p \in AllEntries :
       /\ PathOf(p) = "sam" /\ Existing(p)
       /\ IncomingDate(p) = PyNone
       /\ StoredDate(EntryAt(p).sb, EntryAt(p).nid) # PyNone
  /\ \E p \in AllEntries :
       /\ PathOf(p) = "sam" /\ Existing(p)
       /\ StrictlyLater(StoredDate(EntryAt(p).sb, EntryAt(p).nid), IncomingDate(p))

RepeatsAnIdentity(f) ==
  \E i, j \in DOMAIN Files[f].rows :
    /\ i # j
    /\ HasCol(Files[f].cols, cNoticeId)
    /\ RowGet(Files[f].cols, Files[f].rows[i], cNoticeId, <<>>)
         = RowGet(Files[f].cols, Files[f].rows[j], cNoticeId, <<>>)
    /\ RowGet(Files[f].cols, Files[f].rows[i], cPostedDate, <<>>)
         # RowGet(Files[f].cols, Files[f].rows[j], cPostedDate, <<>>)

CodeOf(v) ==
  IF v \in {PyNone, PyNaN} THEN PyNone
  ELSE LET u == upper(strip(v))
           l == lower(strip(v))
       IN IF u \in AFRICA_ISO3 THEN u
          ELSE IF IsoInParens(u) \in AFRICA_ISO3 THEN IsoInParens(u)
          ELSE IF u \in DOMAIN all_lookups THEN all_lookups[u]
          ELSE IF l \in Keys(AFRICA_MAPPINGS) THEN Lookup(AFRICA_MAPPINGS, l)
          ELSE IF l \in Keys(AFRICA_MAPPINGS_daily) THEN Lookup(AFRICA_MAPPINGS_daily, l)
          ELSE PyNone

\* C6: every stored row has a PopCountry that denotes one of the 54 target
\* region codes.
C6_RegionClosure ==
  \A r \in DOMAIN store : CodeOf(store[r][cPopCountry]) \in AFRICA_ISO3

\* the region filter of a write path, on a row of a file as read
Accepts(path, cols, row) ==
  IF path = "sam"
  THEN HasCol(cols, cPopCountry) /\ is_african_country(RowGet(cols, row, cPopCountry, <<>>))
  ELSE IF path = "bootstrap"
  THEN row_matches(RowGet(cols, row, cPopCountry, <<>>), RowGet(cols, row, cCountryCode, <<>>))
  ELSE row_matches_daily(RowGet(cols, row, cPopCountry, <<>>),
                         RowGet(cols, row, cCountryCode, <<>>))

\* C7: a record neither of whose region columns the path's classifier accepts is
\* not offered to the table, and every stored row was inserted for a record
\* the classifier of its path accepted.
C7_UnclassifiedIsDropped ==
  /\ \A k \in DOMAIN log :
       \A i \in DOMAIN Files[log[k].file].rows :
         ~Accepts(log[k].path, Files[log[k].file].cols, Files[log[k].file].rows[i]) =>
           \A j \in DOMAIN log[k].entries : log[k].entries[j].idx # i
  /\ \A r \in DOMAIN store :
       \E p \in AllEntries :
         /\ EntryAt(p).nid = store[r][cNoticeId]
         /\ EntryAt(p).outcome = "inserted"
         /\ Accepts(PathOf(p), RawHeader(p), RawRecord(p))

\* C7 happens: a run read a record with PopCountry "United States" and
\* CountryCode "USA", which its classifier rejects, and wrote another record of
\* the same file
C7_Witness ==
  \E k \in DOMAIN log :
    LET file == Files[log[k].file]
    IN /\ log[k].sa # log[k].sb
       /\ \E i \in DOMAIN file.rows :
            /\ RowGet(file.cols, file.rows[i], cPopCountry, <<>>)
                 = <<"U", "n", "i", "t", "e", "d", " ", "S", "t", "a", "t", "e", "s">>
            /\ RowGet(file.cols, file.rows[i], cCountryCode, <<>>) = <<"U", "S", "A">>
            /\ ~Accepts(log[k].path, file.cols, file.rows[i])

\* an identity made by make_hash
IsHash(nid) == nid # <<>> /\ nid[1] = "sha1["

\* a record with CountryCode KEN, PostedDate 03/04/2024, no PopCountry column
\* and no identifier column
IsScenarioA(cols, row) ==
  /\ ~HasCol(cols, cPopCountry)
  /\ \A c \in DOMAIN cols : ~IsIdKey(norm(cols[c]))
  /\ RowGet(cols, row, cCountryCode, <<>>) = <<"K", "E", "N">>
  /\ RowGet(cols, row, cPostedDate, <<>>) = <<"0", "3", "/", "0", "4", "/", "2", "0", "2", "4">>

\* C8: after a run over a file with such a record, the table holds a row for
\* it (the row with its Title) with region code KEN, posted date 2024-03-04
\* and a synthesized identity.
C8_ScenarioA ==
  \A k \in DOMAIN log :
    \A i \in DOMAIN Files[log[k].file].rows :
      LET cols == Files[log[k].file].cols
          rec == Files[log[k].file].rows[i]
      IN IsScenarioA(cols, rec) =>
           \E r \in DOMAIN log[k].sa :
             LET row == log[k].sa[r]
             IN /\ row[cTitle] = RowGet(cols, rec, cTitle, <<>>)
                /\ <<"K", "E", "N">> \in {CodeOf(row[cCountryCode]), CodeOf(row[cPopCountry])}
                /\ <<"2", "0", "2", "4", "-", "0", "3", "-", "0", "4">>
                     \in {row[cPostedDate], row[cPostedDate_normalized]}
                /\ IsHash(row[cNoticeId])

\* the identity resolution an entry went through: ensure_notice_id_column,
\* the same in the two scripts, or the NoticeId cell that sam_utils.py reads
ResolverOf(p) == IF PathOf(p) = "sam" THEN "NoticeId" ELSE "ensure_notice_id_column"

\* C9: two rows read from the same raw record and resolved by the same
\* resolution are offered under the same identity, whatever the run, the
\* script, the table, the chunk and the place in the file.
C9_IdentityOfRecordAlone ==
  \A p, q \in AllEntries :
    (/\ RawHeader(p) = RawHeader(q)
     /\ RawRecord(p) = RawRecord(q)
     /\ ResolverOf(p) = ResolverOf(q)) =>
      EntryAt(p).nid = EntryAt(q).nid

\* C9 happens: a record without identifier column was read from two files, at
\* different places, on different tables, and its identity was synthesized
C9_Witness ==
  \E p, q \in AllEntries :
    /\ RawHeader(p) = RawHeader(q) /\ RawRecord(p) = RawRecord(q)
    /\ log[p[1]].file # log[q[1]].file
    /\ EntryAt(p).idx # EntryAt(q).idx
    /\ EntryAt(p).sb # EntryAt(q).sb
    /\ IsHash(EntryAt(p).nid)

\* an identifier cell that is missing, empty or blank
IsMissingId(v) == v \in {PyNaN, PyNone} \/ strip(v) = <<>>

\* C10: every stored identity is a non-empty trimmed text other than the
\* missing-value token, and a row whose identifier cell is missing, empty or
\* blank is reported as not written and leaves the table as it was.
C10_IdentityNonEmpty ==
  /\ \A r \in DOMAIN store :
       LET id == store[r][cNoticeId]
       IN /\ id \notin {PyNone, PyNaN, <<>>}
          /\ strip(id) = id
          /\ lower(id) # <<"n", "a", "n">>
  /\ \A p \in AllEntries :
       (HasCol(RawHeader(p), cNoticeId) /\ IsMissingId(RawCell(p, cNoticeId))) =>
         (EntryAt(p).outcome \in SkipOutcomes /\ EntryAt(p).sa = EntryAt(p).sb)

\* C10 happens: a run was offered a row with a blank identifier and a row with
\* a missing one, and wrote the third row of the file
C10_Witness ==
  \E k \in DOMAIN log :
    /\ log[k].sa # log[k].sb
    /\ \E i \in DOMAIN log[k].entries :
         RawCell(<<k, i>>, cNoticeId) = PyNaN /\ HasCol(RawHeader(<<k, i>>), cNoticeId)
    /\ \E i \in DOMAIN log[k].entries :
         /\ RawCell(<<k, i>>, cNoticeId) # <<>>
         /\ RawCell(<<k, i>>, cNoticeId) # PyNaN
         /\ strip(RawCell(<<k, i>>, cNoticeId)) = <<>>

\* the columns of a header whose normalised name is in the closed alias set
AliasColumns(cols) == {i \in DOMAIN cols : norm(cols[i]) \in ID_CANDIDATES_NORM}

\* C11: on the script paths, a row read under a header with a column of the
\* alias set is offered under that column's trimmed value, and a row is
\* offered under a synthesized identity exactly when its header has no column
\* of the alias set (so no other column ever supplies the identity).
C11_IdentityFromAliasColumn ==
  \A p \in AllEntries :
    PathOf(p) # "sam" =>
      LET alias == AliasColumns(RawHeader(p))
      IN /\ alias # {} =>
              \E i \in alias : EntryAt(p).nid = strip(str(RawRecord(p)[i]))
         /\ IsHash(EntryAt(p).nid) <=> alias = {}

\* a text YYYY-MM-DD that names a day of the calendar
IsRealDate(d) ==
  /\ IsIsoDateShape(d)
  /\ ToNumber(SubSeq(d, 6, 7)) \in 1..12
  /\ ToNumber(SubSeq(d, 9, 10)) \in 1..DaysInMonth(ToNumber(SubSeq(d, 1, 4)), ToNumber(SubSeq(d, 6, 7)))

\* C12: whatever text normalize_posted_date is given, its result is null or a
\* text YYYY-MM-DD that names a real day of the calendar; a text that only has
\* the shape (month 13, day 45, 30 February) is not returned.
C12_NullOrCalendarDate ==
  call.fn = "normalize_posted_date" =>
    (call.result = PyNone \/ IsRealDate(call.result))

\* the text is M/D/YYYY with digits only
IsSlashDateShape(t) ==
  /\ Len(split(t, "/")) = 3
  /\ \A i \in 1..3 : AllDigits(split(t, "/")[i])
  /\ Len(split(t, "/")[1]) \in 1..2
  /\ Len(split(t, "/")[2]) \in 1..2
  /\ Len(split(t, "/")[3]) = 4

\* the text is YYYY-MM-DD, a separator and a time of day
IsIsoWithTime(t, sep) ==
  /\ Len(t) = 19
  /\ IsIsoDateShape(SubSeq(t, 1, 10))
  /\ t[11] = sep
  /\ IsTimeShape(SubSeq(t, 12, 19))

SubstringEitherWay(keys, c) == \E k \in keys : Contains(k, c) \/ Contains(c, k)

\* the three stages of the classification on a candidate c already put in the
\* letter case of the tables: the code set, the alias table, and containment
\* (for candidates longer than a code)
MatchesAStage(codes, keys, c) ==
  \/ upper(c) \in codes
  \/ c \in keys
  \/ Len(c) > 3 /\ SubstringEitherWay(keys, c)

\* C14: a candidate that is a code of the closed set in any letter case, or a
\* key of the alias table (so every key of the table itself), or that
\* contains or is contained in a key, is classified as a target region, by
\* CountryManager.is_african_country and by row_matches of the backfill.
C14_ClassificationStages ==
  /\ (call.fn = "is_african_country" /\ call.arg \notin MissingTokens) =>
       (MatchesAStage(iso3_codes, DOMAIN all_lookups, upper(strip(call.arg))) => call.result)
  /\ (call.fn = "row_matches" /\ call.arg[1] \notin MissingTokens) =>
       (MatchesAStage(AFRICA_ISO3, Keys(AFRICA_MAPPINGS), lower(strip(call.arg[1]))) => call.result)
  /\ (call.fn = "row_matches" /\ call.arg[2] \notin MissingTokens) =>
       (MatchesAStage(AFRICA_ISO3, Keys(AFRICA_MAPPINGS), lower(strip(call.arg[2]))) => call.result)

\* the text is three capital letters
IsThreeLetters(s) == Len(s) = 3 /\ \A i \in 1..3 : s[i] \in AsciiUpper

IdsOf(st) == {st[i][cNoticeId] : i \in DOMAIN st}

\* C16: no step of the system, a start-up or a run of any of the three write
\* paths, and no row written within a run, takes an identity out of the
\* table.
C16_NeverShrinks ==
  [][/\ IdsOf(store) \subseteq IdsOf(store')
     /\ \A k \in DOMAIN log' \ DOMAIN log :
          /\ IdsOf(log'[k].sb) \subseteq IdsOf(log'[k].sa)
          /\ \A i \in DOMAIN log'[k].entries :
               IdsOf(log'[k].entries[i].sb) \subseteq IdsOf(log'[k].entries[i].sa)]_vars

\* C16 happens: a script filled the table, the system has started, and its
\* run overwrote a row of the table
C16_Witness ==
  /\ Len(log) = 2
  /\ started
  /\ log[1].path # "sam"
  /\ log[1].sa # <<>>
  /\ log[2].path = "sam"
  /\ \E i \in DOMAIN log[2].entries : log[2].entries[i].outcome = "updated"
  /\ IdsOf(log[1].sa) \subseteq IdsOf(store)

\* the value the upsert was handed for column c of the row of entry p (a row
\* of the processed chunk): null for a missing cell and for a column the
\* record does not have
OfferedValue(p, c) ==
  LET chunks == SamProcessed[log[p[1]].file]
      ci == CHOOSE i \in DOMAIN chunks :
              \E j \in DOMAIN chunks[i].rows : chunks[i].index[j] = EntryAt(p).idx
      j == CHOOSE j \in DOMAIN chunks[ci].rows : chunks[ci].index[j] = EntryAt(p).idx
  IN NoneIfNa(RowGet(chunks[ci].cols, chunks[ci].rows[j], c, PyNone))

\* C17: after a row is reported updated, the stored row of its identity has,
\* in every column kept from the source, the value of the incoming record
\* (null where the record has none), and its normalised date is that of the
\* incoming posted date.
C17_UpdatedOverwritesAll ==
  \A p \in AllEntries :
    EntryAt(p).outcome = "updated" =>
      LET row == EntryAt(p).sa[RowOf(EntryAt(p).sa, EntryAt(p).nid)]
      IN /\ \A c \in StoreColumns \ {cNoticeId, cPostedDate_normalized} :
              row[c] = OfferedValue(p, c)
         /\ row[cPostedDate_normalized] = normalize_posted_date(OfferedValue(p, cPostedDate))

\* the outcome of a row as the merge policy names it: the scripts report a
\* row they did not write as a duplicate or as a row without identity
OutcomeClass(o) == IF o \in SkipOutcomes THEN "skipped" ELSE o

\* C18: two rows read from the same raw record and offered to the same table
\* have the same outcome and leave the same table, whichever of the three
\* write paths offered them.
C18_SameMergePolicy ==
  \A p, q \in AllEntries :
    (/\ RawHeader(p) = RawHeader(q)
     /\ RawRecord(p) = RawRecord(q)
     /\ EntryAt(p).sb = EntryAt(q).sb) =>
      /\ OutcomeClass(EntryAt(p).outcome) = OutcomeClass(EntryAt(q).outcome)
      /\ EntryAt(p).sa = EntryAt(q).sa


\* C19: no single failing file aborts the whole run: when the fetch or the
\* decoding of a source file (an archive of a year, or the current extract
\* after its fallback URL failed too) ends in failure, the run reports the
\* file and goes on to complete, and is never ended by an uncaught error or
\* by a process exit.  Refuted by the code: main of download_and_update.py
\* calls sys.exit(1) when download_csv fails and lets a decoding error of
\* iter_csv_chunks through its try/finally; ingest_current_full of
\* bootstrap_historical.py calls the fallback inside the except handler, and
\* the ingestion after it, with nothing to catch what they raise.
C19_NoFileAbortsTheRun ==
  run.pc \notin {"crashed", "exited"}

\* the part of C19 that holds: no failure of the archive of a year ends the run
C19_ArchiveFailuresAreCaught ==
  run.pc \in {"crashed", "exited"} =>
    run.events[Len(run.events)].year = 0


\* the years and the bounds of the range a bootstrap run has reported
RangeYears ==
  LET InRange(y) == y >= run.events[1].year /\ y <= run.events[2].year
  IN SelectSeq(available_years, InRange)

\* the tries of base URLs a bootstrap run has reported, in order
Attempts ==
  LET IsAttempt(e) == e.base > 0
  IN SelectSeq(run.events, IsAttempt)

\* C20: in backfill_archives a failed download or ingestion of one fiscal
\* year never stops the loop: the years tried are the available years of
\* [start_year, end_year], in ascending order and without a gap, and all of
\* them once the loop is over; a year that failed at every base URL is
\* reported as skipped (and only such a year is); and for no year the
\* ingestion completes from more than one base URL.
C20_BackfillNeverStops ==
  run.script = "bootstrap" =>
    LET years == {RangeYears[i] : i \in DOMAIN RangeYears}
        tried == {Attempts[i].year : i \in DOMAIN Attempts}
        OutcomesOf(y) == {i \in DOMAIN Attempts : Attempts[i].year = y}
        IngestedOf(y) == {i \in OutcomesOf(y) : Attempts[i].outcome = "ingested"}
        Skipped(y) == \E i \in DOMAIN run.events :
                        run.events[i] = [year |-> y, base |-> 0, outcome |-> "skipped"]
    IN /\ tried \subseteq years
       /\ \A i, j \in DOMAIN Attempts : i < j => Attempts[i].year <= Attempts[j].year
       /\ \A y \in tried : \A z \in years : z < y => z \in tried
       /\ run.pc # "backfill" => tried = years
       /\ \A y \in years :
            /\ Cardinality(IngestedOf(y)) <= 1
            /\ Skipped(y) <=> /\ Cardinality(OutcomesOf(y)) = Len(ARCHIVE_BASES)
                              /\ IngestedOf(y) = {}
            /\ \A i, j \in OutcomesOf(y) : i < j => Attempts[i].base < Attempts[j].base

\* a backfill over three years that is over: the first year was ingested
\* from the first base URL, the second failed to download at the first base
\* and was ingested from the second, the third failed at both and was skipped
C20_Witness ==
  /\ run.script = "bootstrap"
  /\ run.pc = "current"
  /\ Len(RangeYears) = 3
  /\ <<Attempts[1].outcome, Attempts[2].outcome, Attempts[3].outcome>>
       = <<"ingested", "download_failed", "ingested">>
  /\ Attempts[4].outcome = "ingest_failed"
  /\ Attempts[5].outcome \in {"absent", "download_failed", "ingest_failed"}
  /\ run.events[Len(run.events)] = [year |-> RangeYears[3], base |-> 0, outcome |-> "skipped"]


\* C28: a record stored with a null (unparseable) posted date is frozen: no
\* later offer of a row with its identity, whatever the posted date of the
\* row, is reported updated or changes the table.
C28_UndatedIsFrozen ==
  \A p \in AllEntries :
    (Existing(p) /\ StoredDate(EntryAt(p).sb, EntryAt(p).nid) = PyNone) =>
      /\ EntryAt(p).outcome \in SkipOutcomes
      /\ EntryAt(p).sa = EntryAt(p).sb

\* C28 happens: the upsert path was offered a row with a calendar date for an
\* identity stored with a date that does not parse, and left the table alone
C28_Witness ==
  \E p \in AllEntries :
    /\ PathOf(p) = "sam" /\ Existing(p)
    /\ StoredDate(EntryAt(p).sb, EntryAt(p).nid) = PyNone
    /\ IncomingDate(p) # PyNone
    /\ EntryAt(p).outcome = "skipped"


\* s is a display form "NAME (c)" of the code c
IsDisplayOf(s, c) ==
  /\ Len(s) > 6
  /\ SubSeq(s, Len(s) - 5, Len(s)) = <<" ", "(">> \o c \o <<")">>

\* C30: standardising a region is idempotent and keeps the code: a target
\* code c is given the display form "NAME (c)", and that display form,
\* standardised again, comes back as the same text with the same code.
\* Refuted by the code: standardize_country_code of download_and_update.py
\* does not recognise a display form; it falls through to its scan for a
\* mapping key contained in the text and formats the code of the first such
\* key, which is another country's when that country's name is part of the
\* name displayed.
C30_StandardizeIdempotent ==
  call.fn \in {"standardize_country", "standardize_country_code"} =>
    /\ IsDisplayOf(call.result[1], call.arg)
    /\ call.result[2] = call.result[1]

\* the part of C30 that holds: every code is given its display form by both
\* functions, and CountryManager.standardize_country is idempotent on it
C30_DisplayForm ==
  /\ call.fn \in {"standardize_country", "standardize_country_code"} =>
       IsDisplayOf(call.result[1], call.arg)
  /\ call.fn = "standardize_country" =>
       /\ call.result[2] = call.result[1]
       /\ IsoInParens(call.result[2]) = call.arg


\* the other connection has not been opened
Alone(w) == \A v \in DOMAIN writers : v # w => writers[v].status = "idle"

\* the batch of a connection without the rows whose statement failed
WithoutFailedRows(wr) ==
  SelectRows(wr.df, [i \in DOMAIN wr.df.rows |->
                       ~\E k \in DOMAIN wr.entries :
                           wr.entries[k].idx = wr.df.index[i] /\ wr.entries[k].err # "none"])

\* the outcomes a connection reported for the rows whose statement did not fail
OutcomesOfApplied(wr) ==
  LET Applied(e) == e.err = "none"
      kept == SelectSeq(wr.entries, Applied)
  IN [k \in DOMAIN kept |-> <<kept[k].idx, kept[k].nid, kept[k].outcome>>]

\* a call of insert_or_update_batch that returned did what it would have done
\* with the batch without the rows whose INSERT or UPDATE failed
UpsertSkipsFailedRows(w) ==
  (writers[w].path = "sam" /\ writers[w].status = "returned" /\ Alone(w)) =>
    LET r == insert_or_update_batch(writers[w].before, WithoutFailedRows(writers[w]))
    IN /\ store = r.store
       /\ OutcomesOfApplied(writers[w])
            = [k \in DOMAIN r.entries |->
                 <<r.entries[k].idx, r.entries[k].nid, r.entries[k].outcome>>]

\* C25: within a chunk a row whose INSERT or UPDATE fails is skipped, and
\* the other rows of the chunk are applied with the outcome they have
\* without it: a failed row never ends the chunk.  Refuted by the code for
\* the scripts: insert_new_rows_chunk catches sqlite3.IntegrityError only,
\* so any other failure of its INSERT leaves the function, the loop over the
\* chunks and the file.
C25_FailedRowIsSkipped ==
  \A w \in DOMAIN writers :
    /\ writers[w].cause \notin {"failed", "locked"}
    /\ UpsertSkipsFailedRows(w)

\* the part of C25 that holds: insert_or_update_batch skips the failed row and
\* applies the others
C25_UpsertPart ==
  \A w \in DOMAIN writers :
    /\ writers[w].path = "sam" => writers[w].cause \notin {"failed", "locked"}
    /\ UpsertSkipsFailedRows(w)

\* C25_UpsertPart happens: a call returned after the INSERT of its first row
\* failed, and its second row, with the same identity, was inserted
C25_UpsertPartWitness ==
  \E w \in DOMAIN writers :
    /\ writers[w].path = "sam" /\ writers[w].status = "returned" /\ Alone(w)
    /\ Len(writers[w].entries) = 2
    /\ writers[w].entries[1].err = "failed"
    /\ writers[w].entries[2].outcome = "inserted"


\* no two rows of a table have the same identity
UniqueIds(st) == \A i, j \in DOMAIN st : st[i][cNoticeId] = st[j][cNoticeId] => i = j

\* C26: with two connections writing concurrently, under every interleaving
\* of their statements the table never holds two rows with the same
\* identity, and the insert that comes second is refused and reported as
\* skipped or duplicate, never as an error that ends its writer.  Refuted by
\* the code: while the first connection has its transaction open the INSERT
\* of the second waits, and when the wait outlasts the timeout it raises
\* "database is locked", an OperationalError, which insert_new_rows_chunk
\* does not catch.
C26_ConcurrentWriters ==
  /\ UniqueIds(store)
  /\ \A w \in DOMAIN writers : writers[w].cause # "locked"

\* the part of C26 that holds: the committed table and the view of every
\* transaction never hold an identity twice, and a second insert that gets
\* to run is reported skipped or duplicate
C26_UniquePart ==
  /\ UniqueIds(store)
  /\ \A w \in DOMAIN writers :
       /\ UniqueIds(writers[w].view)
       /\ \A k \in DOMAIN writers[w].entries :
            LET e == writers[w].entries[k]
            IN (e.err = "none" /\ HasId(writers[w].before, e.nid) /\ e.outcome # "updated")
                 => e.outcome \in SkipOutcomes

\* C26_UniquePart happens: insert_or_update_batch found no row for an identity,
\* the other connection committed that identity, and the INSERT OR IGNORE
\* that followed was ignored and counted as skipped
C26_UniquePartWitness ==
  /\ \E w \in DOMAIN writers :
       /\ writers[w].path = "sam" /\ writers[w].status = "returned"
       /\ \E k \in DOMAIN writers[w].entries :
            /\ writers[w].entries[k].outcome = "skipped"
            /\ writers[w].entries[k].err = "none"
            /\ ~HasId(writers[w].before, writers[w].entries[k].nid)
            /\ \A j \in 1..(k - 1) : writers[w].entries[j].nid # writers[w].entries[k].nid
            /\ ~invalid_notice_id(writers[w].entries[k].nid)


\* the number of rows a connection reported with the outcome o
Count(wr, o) == Cardinality({k \in DOMAIN wr.entries : wr.entries[k].outcome = o})

\* C27: for every call of insert_or_update_batch that returns,
\* inserted + updated + skipped is the number of rows of the batch, every row
\* being counted once, and the table grows by exactly `inserted` rows.
C27_CountsAddUp ==
  /\ [](\A w \in DOMAIN writers :
          (writers[w].path = "sam" /\ writers[w].status = "returned") =>
            /\ Len(writers[w].entries) = Len(writers[w].df.rows)
            /\ \A i \in DOMAIN writers[w].df.rows :
                 writers[w].entries[i].idx = writers[w].df.index[i]
            /\ Count(writers[w], "inserted") + Count(writers[w], "updated")
                 + Count(writers[w], "skipped") = Len(writers[w].df.rows))
  /\ [][\A w \in DOMAIN writers :
          (writers'[w].path = "sam" /\ writers[w].status # "returned"
             /\ writers'[w].status = "returned") =>
            Len(store') - Len(store) = Count(writers'[w], "inserted")]_vars

\* C27 happens: a call returned with a row inserted and a row updated, and a
\* call returned with a row inserted and a row skipped
C27_Witness ==
  /\ \E w \in DOMAIN writers :
       /\ writers[w].path = "sam" /\ writers[w].status = "returned"
       /\ Count(writers[w], "inserted") = 1 /\ Count(writers[w], "updated") = 1
       /\ Len(store) = 1
  /\ \E w \in DOMAIN writers :
       /\ writers[w].path = "sam" /\ writers[w].status = "returned"
       /\ Count(writers[w], "skipped") > 0


\* C29: when insert_or_update_batch is left by an exception the table is as
\* it was before the call: no step of a call changes the committed table
\* except the step by which the call returns, so nothing of a batch is
\* committed when the call raises, and what earlier calls committed stays.
C29_ExceptionLeavesStore ==
  [][\A w \in DOMAIN writers :
       (writers'[w] # writers[w] /\ writers'[w].path = "sam"
          /\ writers'[w].status # "returned") => store' = store]_vars

\* C29 happens: a call inserted a row, then raised (its SELECT for the next
\* row failed, or its commit), and the table is the one from before the call,
\* which held what an earlier call had committed
C29_Witness ==
  \E w \in DOMAIN writers :
    /\ writers[w].path = "sam" /\ writers[w].status = "raised"
    /\ Count(writers[w], "inserted") + Count(writers[w], "updated") > 0
    /\ writers[w].before # <<>>
    /\ store = writers[w].before


\* a response with a status that is not an error
IsSuccess(status) == status >= 100 /\ status < 400

\* C23: robust_get makes at most max_retries attempts for its URL, returns
\* the response of the first attempt that succeeds, a response with a
\* non-error status, sleeps backoff * attempt between consecutive attempts,
\* delays that grow strictly, and after the last failed attempt raises the
\* last error instead of returning.
C23_BoundedRetries ==
  call.fn = "robust_get" =>
    LET responses == call.arg[2]
        max_retries == call.arg[3]
        backoff == call.arg[4]
        r == call.result
        good == {k \in 1..max_retries : IsSuccess(responses[k])}
    IN /\ r.attempts >= 1 /\ r.attempts <= max_retries
       /\ \A k \in 1..(r.attempts - 1) : ~IsSuccess(responses[k])
       /\ r.status = responses[r.attempts]
       /\ IF good # {}
          THEN r.outcome = "return" /\ r.attempts \in good /\ IsSuccess(r.status)
          ELSE r.outcome = "raise" /\ r.attempts = max_retries
       /\ r.sleeps = [k \in 1..(r.attempts - 1) |-> backoff * k]
       /\ \A k \in 1..(Len(r.sleeps) - 1) : r.sleeps[k] < r.sleeps[k + 1]

\* C23 happens: a call with three attempts allowed and backoff 3 met a server
\* error and a failed request, slept 3 and then 6, and returned the answer of
\* its third attempt
C23_Witness ==
  /\ call.fn = "robust_get"
  /\ call.arg[3] = 3
  /\ call.arg[2] = <<503, 0, 200>>
  /\ call.result.outcome = "return"
  /\ call.result.attempts = 3
  /\ call.result.sleeps = <<3, 6>>

\* C21: each chunk is committed before the next chunk is read: when the
\* ingestion of a file stops while chunk k is read or written, the committed
\* table is the table as the chunks before k left it, and nothing of chunk k
\* is in it.  Refuted by the code: ingest_file_into_db commits after every
\* second chunk only, and not after a chunk without a matching row, and main
\* of download_and_update.py commits after its loop only; the rows written
\* since the last commit are rolled back when the finally closes the
\* connection.
C21_ChunkIsCommittedBeforeTheNext == ing.phase = "failed" => store = ing.conn

\* the part of C21 that holds: insert_or_update_batch commits each chunk
C21_UpsertPart == (ing.phase = "failed" /\ ing.path = "sam") => store = ing.conn

\* C21_UpsertPart happens: the ingestion stopped after its first chunk had
\* written a row, and the row is in the committed table
C21_UpsertPartWitness ==
  /\ ing.phase = "failed" /\ ing.path = "sam"
  /\ Len(ing.steps) = 1 /\ ing.steps[1].matched
  /\ store = ing.conn /\ Len(store) = 1

\* C24: the chunks processed for one file all come from one encoding, the
\* first that decodes the whole file: no chunk handed over by a trial that
\* raises later is processed.  Refuted by the code: read_csv_chunks and
\* iter_csv_chunks yield each chunk as it is decoded, so the chunks before
\* the place where a trial raises have been processed when the next encoding
\* starts the file again.
C24_SingleEncoding == \A k \in DOMAIN ing.steps : ing.steps[k].trial = ing.trial

\* the part of C24 that holds: the encodings are tried in their order, each
\* from the head of the file, and the file fails when the last one raised
C24_FixedOrder ==
  /\ ing.phase # "idle" => ing.trial \in DOMAIN enc_trials(ing.path)
  /\ \A k \in DOMAIN ing.steps :
       /\ ing.steps[k].trial <= ing.trial
       /\ k > 1 => \/ /\ ing.steps[k].trial = ing.steps[k - 1].trial
                      /\ ing.steps[k].pos = ing.steps[k - 1].pos + 1
                   \/ /\ ing.steps[k].trial > ing.steps[k - 1].trial
                      /\ ing.steps[k].pos = 1

\* C24_FixedOrder happens: the fourth encoding decoded the file after the
\* first one had raised at the second chunk
C24_FixedOrderWitness ==
  /\ ing.phase = "done" /\ ing.trial = 4
  /\ Len(ing.steps) = 3
  /\ ing.steps[1].trial = 1 /\ ing.steps[2].trial = 4

\* a step of the state machine of a file: opened, then each chunk streamed
\* and committed in turn, then done; failed from any of them.  The reads
\* before the first chunk count as opened.
StateMachineStep ==
  \/ ing.phase = "idle" /\ ing'.phase = "opened"
  \/ ing.phase = "opened" /\ ing'.phase = "opened" /\ ing.pos = 0
  \/ ing.phase = "opened" /\ ing'.phase = "streaming" /\ ing'.pos = 1
  \/ ing.phase = "streaming" /\ ing'.phase = "committing" /\ ing'.pos = ing.pos
  \/ ing.phase = "committing" /\ ing'.phase = "streaming" /\ ing'.pos = ing.pos + 1
  \/ ing.phase = "committing" /\ ing'.phase = "done"
  \/ ing.phase \in {"opened", "streaming", "committing"} /\ ing'.phase = "failed"

\* C22: the ingestion of a file moves only along opened, streaming(chunk i),
\* committing(chunk i), streaming(chunk i+1) or done, with failed entered
\* from them, and writes nothing after done or failed.  Refuted by the code:
\* ingest_file_into_db streams the next chunk without a commit after an odd
\* chunk or a chunk without a matching row, and iter_csv_chunks goes back to
\* the first chunk when an encoding raises after chunks were streamed.
C22_StateMachine ==
  [][/\ StateMachineStep
     /\ ing.phase \in {"done", "failed"} => store' = store]_vars

\* a bound on the steps an ingestion has left: the encodings left, and the
\* chunks and commits left for the encoding at work
StepsLeft(g) ==
  LET n == Len(g.chunks)
  IN IF g.phase \in {"done", "failed"} THEN 0
     ELSE (Len(enc_trials(g.path)) - g.trial) * (2 * n + 2) + 1
          + (CASE g.phase = "opened" -> 2 * n + 1
               [] g.phase = "streaming" -> 2 * (n - g.pos) + 1
               [] OTHER -> 2 * (n - g.pos))

\* the part of C22 that holds: done and failed are final and nothing is
\* written after them, done is entered after the commit of what was written,
\* and every ingestion ends in one of them: each step leaves fewer steps,
\* and a step is possible until then
C22_TerminalIsFinal ==
  /\ [][ing.phase \notin {"done", "failed"}]_vars
  /\ [][ing.phase # "idle" => StepsLeft(ing') < StepsLeft(ing)]_vars
  /\ [](ing.phase = "done" => store = ing.conn)
  /\ [](ing.phase \in {"opened", "streaming", "committing"}
          => ENABLED (CommitChunk \/ FailChunk("read")))

\* C22_TerminalIsFinal happens: a file of two chunks is done
C22_TerminalWitness == ing.phase = "done" /\ Len(ing.steps) = 2 /\ ing.trial = 1

=============================================================================
